---- MODULE Spec2Model ----
(***************************************************************************)
(* Model of the notification senders of TrendRadar                         *)
(* (src/trendradar/notification/senders.py).                               *)
(*                                                                         *)
(* One behaviour is one call of one send_to_* function.  The call is cut   *)
(* at its blocking points: the call of split_content_func, every           *)
(* requests.post, and every time.sleep.  The transport is the environment: *)
(* it answers every request with any response of Responses.                *)
(***************************************************************************)
EXTENDS Integers, Sequences, FiniteSets, TLC

VARIABLES
    channel,        \* which send_to_* function is called
    msg_type,       \* send_to_wework: "markdown" | "text"
    server_url,     \* send_to_ntfy: "ntfy.sh" | "selfhosted"
    cred,           \* TRUE iff the credential arguments are non-empty and well-formed
    statsOk,        \* TRUE iff report_data has the "stats" list send_to_feishu reads
    batch_size,     \* keyword argument batch_size
    batch_interval, \* keyword argument batch_interval (send_to_ntfy has none)
    token,          \* send_to_ntfy: TRUE iff the optional token is supplied
    headers,        \* send_to_ntfy: the base header map built at entry
    podcast_data,   \* send_to_feishu: keyword argument podcast_data
    pc,             \* position in the function body
    batches,        \* result of add_batch_headers, in logical order
    idx,            \* loop index (i in the forward senders, idx in ntfy/bark)
    success_count,  \* counter of send_to_ntfy / send_to_bark
    splitCalls,     \* number of calls of split_content_func
    log,            \* everything the call did: requests, responses, sleeps
    ret,            \* value returned: "none" | "True" | "False"
    error,          \* failure class: "none" | exception that escaped | reject reason
    build_args,     \* arguments of a direct call of build_feishu_card_payload
    payload,        \* what that call returned
    run,            \* 1 for a call, 2 when the same call is made a second time
    prev,           \* what the first of the two calls did
    calls,          \* two calls in progress at once: the frame of each
    solo,           \* the same two calls, each running alone
    counter,        \* where the success counters of the calls in progress live
    mail,           \* a call of send_to_email: arguments, locals, SMTP calls made
    call,           \* a call of one podcast collaborator: fetch_content, summarize, generate
    mgr             \* a call of PodcastManager.generate_podcasts

vars == <<channel, msg_type, server_url, cred, statsOk, batch_size, batch_interval,
          token, headers, podcast_data, pc,
          batches, idx, success_count, splitCalls, log, ret, error, build_args, payload,
          run, prev, calls, solo, counter, mail, call, mgr>>

(***************************************************************************)
(* Bounds of the model.                                                    *)
(***************************************************************************)
MaxBatches == 3
MaxBatchSize == 5

(***************************************************************************)
(* Channels.                                                               *)
(***************************************************************************)
StrictChannels == {"feishu", "dingtalk", "wework", "telegram", "slack"}
BestEffortChannels == {"ntfy", "bark"}
Channels == StrictChannels \cup BestEffortChannels

\* Values of the keyword argument batch_interval (seconds): the default and
\* one a caller chooses.
BatchIntervals == {1, 3}

\* time.sleep(10) of the rate-limit path of send_to_ntfy.
RateLimitBackoff == 10

(***************************************************************************)
(* Transport responses.  status 0 stands for an exception raised by        *)
(* requests.post (timeout, connection error, invalid URL).  body is what   *)
(* the sender looks at in a 200 response: "match" is a body carrying the   *)
(* channel's success value (JSON with StatusCode/code/errcode/ok/code=200, *)
(* the text "ok" for Slack), "mismatch" a well-formed body with another    *)
(* value, "nonjson" a body response.json() cannot parse.                   *)
(***************************************************************************)
Responses ==
    { [status |-> 200, body |-> b] : b \in {"match", "mismatch", "nonjson"} }
    \cup { [status |-> s, body |-> "none"] : s \in {0, 413, 429, 500} }

NoResp == [status |-> -1, body |-> "none"]

(***************************************************************************)
(* Events of the log.                                                      *)
(*   req   : a requests.post call; k is the number in the header of the    *)
(*           batch it carries, rep the number the sender prints for it,    *)
(*           title the number in the ntfy Title header (0: plain title),   *)
(*           att 1 for the first attempt and 2 for the rate-limit retry    *)
(*           size the byte size of the batch (content_size)                *)
(*           auth TRUE iff the request has an Authorization header,        *)
(*           sections, summaries the include_podcast_sections and          *)
(*           include_podcast_summaries flags send_to_feishu passed to the  *)
(*           card builder, card the payload posted (feishu only)           *)
(*   resp  : the response (or exception) of the last request               *)
(*   sleep : a time.sleep call of secs seconds                             *)
(***************************************************************************)
NoPayload == [msg_type |-> "none", title |-> "", elements |-> <<>>]
\* The builder raised instead of returning a payload.
RaisedPayload == [msg_type |-> "raised", title |-> "", elements |-> <<>>]
NoCard == [sections |-> FALSE, summaries |-> FALSE, card |-> NoPayload]

ReqEv(k, rep, hdrs, att, size, c) ==
    [ev |-> "req", k |-> k, rep |-> rep, title |-> hdrs.Title,
     auth |-> hdrs.Authorization, att |-> att,
     size |-> size, r |-> NoResp, secs |-> 0,
     sections |-> c.sections, summaries |-> c.summaries, card |-> c.card]
RespEv(r) ==
    [ev |-> "resp", k |-> 0, rep |-> 0, title |-> 0, auth |-> FALSE, att |-> 0,
     size |-> 0, r |-> r, secs |-> 0,
     sections |-> FALSE, summaries |-> FALSE, card |-> NoPayload]
SleepEv(s) ==
    [ev |-> "sleep", k |-> 0, rep |-> 0, title |-> 0, auth |-> FALSE, att |-> 0,
     size |-> 0, r |-> NoResp, secs |-> s,
     sections |-> FALSE, summaries |-> FALSE, card |-> NoPayload]

(***************************************************************************)
(* Helpers on sequences.                                                   *)
(***************************************************************************)
Reverse(s) == [p \in 1..Len(s) |-> s[Len(s) - p + 1]]

RECURSIVE SeqsUpTo(_, _)
SeqsUpTo(S, n) ==
    IF n = 0 THEN { <<>> }
    ELSE LET shorter == SeqsUpTo(S, n - 1)
         IN  shorter \cup { Append(s, x) : s \in { t \in shorter : Len(t) = n - 1 }, x \in S }

(***************************************************************************)
(* Collaborators that are not part of senders.py: the batch module         *)
(* (get_max_batch_header_size, add_batch_headers) and the splitter passed  *)
(* as split_content_func.  Sizes are in bytes, scaled down.                *)
(***************************************************************************)

\* Variant: send_to_wework uses the format of its markdown mode in both modes.
HeaderFormatOfChannel(ch, mt) == ch

\* Format name the sender passes to get_max_batch_header_size and
\* add_batch_headers.
HeaderFormat(ch, mt) ==
    IF ch = "wework" THEN (IF mt = "text" THEN "wework_text" ELSE "wework") ELSE ch

\* Header reserve of a format: plain text headers are smaller than markdown ones.
get_max_batch_header_size(f) == IF f = "wework_text" THEN 2 ELSE 3

\* Size of the header add_batch_headers prepends to batch i of n.
HeaderSize(f, i, n) == get_max_batch_header_size(f)

\* The splitter fails with BudgetExhausted when max_bytes <= 0.
SplitRaises(max_bytes) == max_bytes <= 0

\* Chunk sequences the splitter can return: every chunk fills the budget, or
\* is a single item larger than the budget, alone in its chunk.
ChunkSizes(max_bytes) == {max_bytes, max_bytes + 1}
SplitResults(max_bytes) == SeqsUpTo(ChunkSizes(max_bytes), MaxBatches)

\* add_batch_headers fails with HeaderOverflow when header + chunk exceeds the
\* batch size.
HeaderOverflows(chunks, f, max_batch_bytes) ==
    \E i \in 1..Len(chunks) : HeaderSize(f, i, Len(chunks)) + chunks[i] > max_batch_bytes

\* Batch i of n carries the header "i/n", rendered in format f.
add_batch_headers(chunks, f, max_batch_bytes) ==
    [i \in 1..Len(chunks) |->
        [num |-> i, total |-> Len(chunks),
         size |-> HeaderSize(f, i, Len(chunks)) + chunks[i],
         format |-> f]]

(***************************************************************************)
(* Decisions of the senders.                                               *)
(***************************************************************************)

\* Variant: the reserve is not subtracted.
MaxBytesNoReserve(bs, f) == bs

\* max_bytes=batch_size - header_reserve, the budget handed to the splitter.
MaxBytes(bs, f) == bs - get_max_batch_header_size(f)

\* The list the loop iterates over: batches, or list(reversed(batches)).
SendList(ch, bs) == IF ch \in BestEffortChannels THEN Reverse(bs) ELSE bs

\* Variant: the physical send index is reported as the batch number.
ActualBatchNumIdx(ch, total, i) == i

\* actual_batch_num = total_batches - idx + 1 (ntfy, bark); the forward
\* senders print the loop index i.
ActualBatchNum(ch, total, i) ==
    IF ch \in BestEffortChannels THEN total - i + 1 ELSE i

\* if content_size > 4096: the size above which ntfy and bark print a warning
\* (4096 bytes, in the scaled unit of the model).
SizeWarnLimit == 4

\* Variant: a batch above the warning size is skipped.
DropsOversizeAboveLimit(ch, size) == ch \in BestEffortChannels /\ size > SizeWarnLimit

\* The size check of ntfy and bark only prints: no batch is skipped.
DropsOversize(ch, size) == FALSE

\* Title header of ntfy: "(k/n)" only when total_batches > 1.  0: plain title.
TitleNumber(ch, total, k) == IF ch = "ntfy" /\ total > 1 THEN k ELSE 0

\* The header map of a sender that sets no header per batch or per token.
NoHeaders == [Title |-> 0, Authorization |-> FALSE]

\* headers = {..., "Title": report_type_en, ...}; if token:
\* headers["Authorization"] = ...  (send_to_ntfy).
BaseHeaders(ch, tok) ==
    IF ch = "ntfy" THEN [Title |-> 0, Authorization |-> tok] ELSE NoHeaders

\* current_headers: the base headers, with the Title of the batch when there
\* is more than one batch.
CurrentHeaders(ch, base, total, k) ==
    IF ch = "ntfy" /\ total > 1
    THEN [base EXCEPT !.Title = TitleNumber(ch, total, k)]
    ELSE base

\* Variant: current_headers = headers, the same map under two names.
BaseAfterAlias(base, current) == current

\* current_headers = headers.copy(): what is set in the copy is not set in
\* the base map.
BaseAfterCopy(base, current) == base

\* Variant: the success field of the body is not looked at.
BatchOkStatusOnly(ch, r) == r.status = 200

\* The test that takes the success branch of a response.
BatchOk(ch, r) ==
    CASE ch = "ntfy"  -> r.status = 200
      [] ch = "slack" -> r.status = 200 /\ r.body = "match"
      [] OTHER        -> r.status = 200 /\ r.body = "match"

\* The response makes the code inside the try block raise: requests.post
\* itself raised, or response.json() cannot parse the body of a 200.
Raises(ch, r) ==
    \/ r.status = 0
    \/ r.status = 200 /\ r.body = "nonjson" /\ ch \notin {"ntfy", "slack"}

\* Variant: the retry request of ntfy is outside the try block.
ExceptionCaughtFirstOnly(ch, att) == att = 1

\* except Exception: every exception raised inside the try block of the loop
\* is caught, for the first attempt and for the rate-limit retry alike.
ExceptionCaught(ch, att) == TRUE

\* Variant: the post does not wait for its response.
AwaitNothing(att) == "loop"

\* requests.post is synchronous: the sender waits for the response (or
\* exception) of attempt att before it does anything else.
AwaitResponse(att) == IF att = 1 THEN "inflight" ELSE "retry_inflight"

\* Variant: every sender retries a rate-limited request.
ShouldRetryAnyChannel(ch, r) == r.status = 429

\* Variant: every non-200 response of ntfy is retried.
ShouldRetryAnyFailure(ch, r) == ch = "ntfy" /\ r.status # 200

\* elif response.status_code == 429 (send_to_ntfy only).
ShouldRetry(ch, r) == ch = "ntfy" /\ r.status = 429

\* Variant: no sender returns on a failed batch.
OnFailureContinue(ch) == "continue"

\* What a failed batch does to the loop: the strict senders return False, the
\* best-effort senders fall through to the next iteration.
OnFailure(ch) == IF ch \in StrictChannels THEN "return_false" ELSE "continue"

\* success_count += 1 on a 200 of the first attempt.
CountSuccess(n) == n + 1

\* Variant: the loop goes on from where the loop index was left.
LoopResume(old) == IF old >= 1 THEN old ELSE 1

\* enumerate(batches, 1): the loop index starts at 1 whatever it was before.
LoopStart(old) == 1

\* Variant: a successful retry counts the first attempt as well.
CountRetryTwice(n, r) == IF r.status = 200 THEN n + 2 ELSE n

\* if retry_response.status_code == 200: success_count += 1
CountRetry(n, r) == IF r.status = 200 THEN n + 1 ELSE n

\* Variant: ntfy and bark return True only when every batch succeeded.
VerdictAllOrNothing(ch, n, total) ==
    IF ch \in StrictChannels THEN "True"
    ELSE IF n = total THEN "True" ELSE "False"

\* Variant: ntfy and bark return True only when some batch succeeded.
VerdictNeedsOne(ch, n, total) ==
    IF ch \in StrictChannels THEN "True"
    ELSE IF n > 0 THEN "True" ELSE "False"

\* Value returned after the loop.  The strict senders return True; ntfy and
\* bark return True when success_count == total_batches or success_count > 0.
Verdict(ch, n, total) ==
    IF ch \in StrictChannels THEN "True"
    ELSE IF n = total THEN "True"
    ELSE IF n > 0 THEN "True"
    ELSE "False"

\* Variant: send_to_ntfy sleeps for the interval of the caller as well.
IntervalOfCaller(ch, url, interval) == interval

\* Inter-batch delay: batch_interval, but 2 or 1 seconds in send_to_ntfy.
Interval(ch, url, interval) ==
    IF ch = "ntfy" THEN (IF url = "ntfy.sh" THEN 2 ELSE 1) ELSE interval

(***************************************************************************)
(* Texts are sequences of characters.  Python None is PyNone.              *)
(***************************************************************************)
PyNone == <<"None">>

\* x or ""
OrEmpty(x) == IF x = PyNone THEN <<>> ELSE x

RECURSIVE LStrip(_)
LStrip(t) == IF t # <<>> /\ t[1] = " " THEN LStrip(Tail(t)) ELSE t

RECURSIVE RStrip(_)
RStrip(t) == IF t # <<>> /\ t[Len(t)] = " " THEN RStrip(SubSeq(t, 1, Len(t) - 1)) ELSE t

\* str.strip()
strip(t) == RStrip(LStrip(t))

\* _truncate_text(text, max_chars)
truncate_text(text, max_chars) ==
    IF text = PyNone \/ text = <<>> THEN <<>>
    ELSE LET stripped == strip(text)
         IN  IF max_chars <= 0 THEN <<>>
             ELSE IF Len(stripped) <= max_chars THEN stripped
             ELSE Append(SubSeq(stripped, 1, max_chars), "...")

(***************************************************************************)
(* build_feishu_card_payload.  podcast_data is None or a dict, modelled as *)
(* [none, entries] with entries in insertion order; an entry is            *)
(* [keyword, isdict, audio_url, summary, article_count].  A card element   *)
(* is a record of its tag, what it is (kind) and what it shows.            *)
(***************************************************************************)
Element(tag, kind, keyword, count, content, url, actions) ==
    [tag |-> tag, kind |-> kind, keyword |-> keyword, count |-> count,
     content |-> content, url |-> url, actions |-> actions]

Button(keyword, audio_url) == [keyword |-> keyword, url |-> audio_url]

\* if podcast_data: neither None nor an empty dict
Truthy(pdata) == ~pdata.none /\ pdata.entries # <<>>

\* Variant: the type of the value is not looked at.
ReachesGetAnyType(e) == e.keyword # ""

\* if not keyword or not isinstance(data, dict): continue -- the entries
\* that get past this line are the ones data.get is called on.
ReachesGet(e) == ~(e.keyword = "" \/ ~e.isdict)

\* data.get raises AttributeError on a value that is not a dict.
BuilderRaises(include_podcast_sections, pdata) ==
    /\ include_podcast_sections
    /\ Truthy(pdata)
    /\ \E j \in 1..Len(pdata.entries) :
          ReachesGet(pdata.entries[j]) /\ ~pdata.entries[j].isdict

\* The loop that keeps the entries with a keyword, a dict value and a link or
\* a summary.
RECURSIVE UsableItems(_)
UsableItems(entries) ==
    IF entries = <<>> THEN <<>>
    ELSE LET e == Head(entries)
             audio_url == strip(OrEmpty(e.audio_url))
             summary == strip(OrEmpty(e.summary))
         IN  IF ~ReachesGet(e) THEN UsableItems(Tail(entries))
             ELSE IF audio_url = <<>> /\ summary = <<>> THEN UsableItems(Tail(entries))
             ELSE <<[keyword |-> e.keyword, audio_url |-> audio_url, summary |-> summary,
                     article_count |-> e.article_count]>> \o UsableItems(Tail(entries))

\* Variant: the items are not capped.
CapItemsAll(items, max_keywords_in_card) == items

\* items[: max_keywords_in_card if max_keywords_in_card > 0 else len(items)]
CapItems(items, max_keywords_in_card) ==
    IF max_keywords_in_card > 0 /\ max_keywords_in_card < Len(items)
    THEN SubSeq(items, 1, max_keywords_in_card)
    ELSE items

\* One button per item with a link.
RECURSIVE PodcastButtons(_)
PodcastButtons(items) ==
    IF items = <<>> THEN <<>>
    ELSE IF Head(items).audio_url = <<>> THEN PodcastButtons(Tail(items))
    ELSE <<Button(Head(items).keyword, Head(items).audio_url)>> \o PodcastButtons(Tail(items))

\* for j in range(0, len(podcast_buttons), 3): one action row per 3 buttons
RECURSIVE ActionRows(_)
ActionRows(buttons) ==
    IF buttons = <<>> THEN <<>>
    ELSE IF Len(buttons) <= 3
    THEN <<Element("action", "buttons", "", 0, <<>>, <<>>, buttons)>>
    ELSE <<Element("action", "buttons", "", 0, <<>>, <<>>, SubSeq(buttons, 1, 3))>>
         \o ActionRows(SubSeq(buttons, 4, Len(buttons)))

\* The note shown when no item has a link.
PlaceholderNote == <<Element("note", "placeholder", "", 0, <<>>, <<>>, <<>>)>>

\* The buttons section of the card.
ButtonsSection(items) ==
    LET podcast_buttons == PodcastButtons(items)
    IN  <<Element("markdown", "podcast_title", "", 0, <<>>, <<>>, <<>>)>>
        \o ActionRows(podcast_buttons)
        \o (IF podcast_buttons = <<>> THEN PlaceholderNote ELSE <<>>)
        \o <<Element("note", "validity", "", 0, <<>>, <<>>, <<>>)>>

\* The summaries section of the card.
RECURSIVE SummaryElements(_, _)
SummaryElements(items, max_chars) ==
    IF items = <<>> THEN <<>>
    ELSE LET it == Head(items)
         IN  <<Element("markdown", "summary", it.keyword, it.article_count,
                       truncate_text(it.summary, max_chars), it.audio_url, <<>>)>>
             \o SummaryElements(Tail(items), max_chars)

SummariesSection(items, max_chars) ==
    <<Element("hr", "hr", "", 0, <<>>, <<>>, <<>>),
      Element("markdown", "summary_title", "", 0, <<>>, <<>>, <<>>)>>
    \o SummaryElements(items, max_chars)

\* What follows the batch content when there are podcast sections to show.
PodcastElements(pdata, include_podcast_summaries, include_podcast_buttons, max_summary_chars_per_keyword, max_keywords_in_card) ==
    IF ~Truthy(pdata) THEN <<>>
    ELSE LET usable == UsableItems(pdata.entries)
         IN  IF usable = <<>> THEN <<>>
             ELSE LET items == CapItems(usable, max_keywords_in_card)
                  IN  <<Element("hr", "hr", "", 0, <<>>, <<>>, <<>>)>>
                      \o (IF include_podcast_buttons THEN ButtonsSection(items) ELSE <<>>)
                      \o (IF include_podcast_summaries
                          THEN SummariesSection(items, max_summary_chars_per_keyword)
                          ELSE <<>>)

\* Variant: the batch content is stripped before it is put in the card.
BatchElementStripped(batch_content) ==
    Element("markdown", "batch", "", 0, strip(batch_content), <<>>, <<>>)

\* elements = [{"tag": "markdown", "content": batch_content}]
BatchElement(batch_content) ==
    Element("markdown", "batch", "", 0, batch_content, <<>>, <<>>)

build_feishu_card_payload(report_type, batch_content, pdata, include_podcast_sections, include_podcast_summaries, include_podcast_buttons, max_summary_chars_per_keyword, max_keywords_in_card) ==
    [msg_type |-> "interactive",
     title |-> report_type,
     elements |->
        <<BatchElement(batch_content)>>
        \o (IF include_podcast_sections
            THEN PodcastElements(pdata, include_podcast_summaries,
                                 include_podcast_buttons, max_summary_chars_per_keyword,
                                 max_keywords_in_card)
            ELSE <<>>)]

(***************************************************************************)
(* The card send_to_feishu builds for batch i of n.                        *)
(***************************************************************************)
\* Variant: sections on the first and on the last batch.
IncludePodcastSectionsFirstOrLast(i, n) == i = 1 \/ i = n

\* bool(is_first_batch or (is_last_batch and len(batches) == 1))
IncludePodcastSections(i, n) == i = 1 \/ (i = n /\ n = 1)

\* The keyword arguments of the call in send_to_feishu: buttons always,
\* summaries never, max_summary_chars_per_keyword=600, max_keywords_in_card=10.
FeishuCard(batch_content, i, n, pd) ==
    [sections |-> IncludePodcastSections(i, n),
     summaries |-> FALSE,
     card |-> build_feishu_card_payload("report_type", batch_content, pd,
                  IncludePodcastSections(i, n), FALSE, TRUE, 600, 10)]

\* What the request of batch i carries beside the batch.
CardOf(ch, batch_content, i, n, pd) ==
    IF ch = "feishu" THEN FeishuCard(batch_content, i, n, pd) ELSE NoCard

(***************************************************************************)
(* podcast_data values of the calls of send_to_feishu.                     *)
(***************************************************************************)
Entry_(keyword, isdict, audio_url, summary, article_count) ==
    [keyword |-> keyword, isdict |-> isdict, audio_url |-> audio_url,
     summary |-> summary, article_count |-> article_count]
NoPodcast == [none |-> TRUE, entries |-> <<>>]
Podcast(entries) == [none |-> FALSE, entries |-> entries]

PodcastSamples ==
    { NoPodcast,
      Podcast(<<>>),
      Podcast(<<Entry_("k1", TRUE, <<"u">>, <<"a">>, 2)>>),
      Podcast(<<Entry_("k1", TRUE, PyNone, <<"a">>, 1)>>),
      Podcast(<<Entry_("k1", TRUE, <<"u">>, PyNone, 0),
                Entry_("k2", TRUE, <<" ">>, <<"a">>, 1)>>) }

(***************************************************************************)
(* State derived from the variables.                                       *)
(***************************************************************************)
total_batches == Len(batches)
reversed_batches == SendList(channel, batches)
header_format == HeaderFormat(channel, msg_type)

\* No direct call of build_feishu_card_payload.
NoBuild == [called |-> FALSE]

\* No earlier call.
NoPrev == [log |-> <<>>, ret |-> "none", batches |-> <<>>]

\* No call of send_to_email, of a podcast collaborator, of the manager.
NoMail == [pc |-> "none"]
NoCall == [pc |-> "none"]
NoMgr == [pc |-> "none"]
OutsideIdle == mail = NoMail /\ call = NoCall /\ mgr = NoMgr

(***************************************************************************)
(* Initial state: the arguments of one call.                               *)
(***************************************************************************)
Init ==
    /\ OutsideIdle
    /\ channel \in Channels
    /\ msg_type \in (IF channel = "wework" THEN {"markdown", "text"} ELSE {"markdown"})
    /\ server_url \in (IF channel = "ntfy" THEN {"ntfy.sh", "selfhosted"} ELSE {"selfhosted"})
    /\ cred \in BOOLEAN
    /\ statsOk \in (IF channel = "feishu" THEN BOOLEAN ELSE {TRUE})
    /\ batch_size \in 2..MaxBatchSize
    /\ batch_interval \in (IF channel = "ntfy" THEN {1} ELSE BatchIntervals)
    /\ token \in (IF channel = "ntfy" /\ cred THEN BOOLEAN ELSE {FALSE})
    /\ headers = NoHeaders
    /\ podcast_data \in (IF channel = "feishu" THEN PodcastSamples ELSE {NoPodcast})
    /\ build_args = NoBuild
    /\ payload = NoPayload
    /\ run = 1
    /\ prev = NoPrev
    /\ calls = <<>> /\ solo = <<>> /\ counter = <<>>
    /\ pc = "entry"
    /\ batches = <<>>
    /\ idx = 0
    /\ success_count = 0
    /\ splitCalls = 0
    /\ log = <<>>
    /\ ret = "none"
    /\ error = "none"

args == <<channel, msg_type, server_url, cred, statsOk, batch_size, batch_interval,
          token, podcast_data>>
card_call == <<build_args, payload>>
rerun == <<run, prev>>
par == <<calls, solo, counter>>
outside == <<mail, call, mgr>>

(***************************************************************************)
(* Entry of the function, up to the call of the splitter.  Only            *)
(* send_to_bark looks at its credential: it returns False when bark_url    *)
(* has no device_key.  The other senders build headers, proxies and URL    *)
(* and go on.                                                              *)
(***************************************************************************)
Entry ==
    /\ pc = "entry"
    /\ IF channel = "bark" /\ ~cred
       THEN /\ pc' = "done"
            /\ ret' = "False"
            /\ error' = "MissingCredential"
            /\ UNCHANGED headers
       ELSE /\ pc' = "split"
            /\ headers' = BaseHeaders(channel, token)
            /\ UNCHANGED <<ret, error>>
    /\ UNCHANGED <<args, outside, card_call, rerun, par, batches, idx, success_count, splitCalls, log>>

(***************************************************************************)
(* header_reserve = get_max_batch_header_size(f);                          *)
(* batches = split_content_func(..., max_bytes=batch_size-header_reserve); *)
(* batches = add_batch_headers(batches, f, batch_size).                    *)
(* Neither call is inside a try block: what they raise leaves the sender.  *)
(***************************************************************************)
SplitContent ==
    /\ pc = "split"
    /\ splitCalls' = splitCalls + 1
    /\ LET max_bytes == MaxBytes(batch_size, header_format) IN
       IF SplitRaises(max_bytes)
       THEN /\ pc' = "raised"
            /\ error' = "BudgetExhausted"
            /\ UNCHANGED <<batches, idx, success_count>>
       ELSE \E chunks \in SplitResults(max_bytes) :
                IF HeaderOverflows(chunks, header_format, batch_size)
                THEN /\ pc' = "raised"
                     /\ error' = "HeaderOverflow"
                     /\ UNCHANGED <<batches, idx, success_count>>
                ELSE /\ batches' = add_batch_headers(chunks, header_format, batch_size)
                     /\ idx' = LoopStart(idx)
                     /\ success_count' = 0
                     /\ pc' = "loop"
                     /\ UNCHANGED error
    /\ UNCHANGED <<args, outside, card_call, rerun, par, headers, log, ret>>

(***************************************************************************)
(* Top of one loop iteration, up to requests.post.  send_to_feishu reads   *)
(* report_data["stats"] before its try block.                              *)
(***************************************************************************)
PostBatch ==
    /\ pc = "loop"
    /\ idx <= total_batches
    /\ IF channel = "feishu" /\ ~statsOk
       THEN /\ pc' = "raised"
            /\ error' = "KeyError"
            /\ UNCHANGED <<log, idx, headers>>
       ELSE IF /\ channel = "feishu"
               /\ BuilderRaises(IncludePodcastSections(idx, total_batches), podcast_data)
       THEN /\ pc' = "raised"
            /\ error' = "AttributeError"
            /\ UNCHANGED <<log, idx, headers>>
       ELSE LET batch_content == reversed_batches[idx]
                actual_batch_num == ActualBatchNum(channel, total_batches, idx)
                current_headers == CurrentHeaders(channel, headers, total_batches,
                                                  actual_batch_num)
            IN  IF DropsOversize(channel, batch_content.size)
                THEN /\ idx' = idx + 1
                     /\ UNCHANGED <<log, pc, error, headers>>
                ELSE /\ log' = Append(log, ReqEv(batch_content.num, actual_batch_num,
                                        current_headers, 1, batch_content.size,
                                        CardOf(channel, batch_content, idx, total_batches,
                                               podcast_data)))
                     /\ headers' = BaseAfterCopy(headers, current_headers)
                     /\ pc' = AwaitResponse(1)
                     /\ UNCHANGED <<error, idx>>
    /\ UNCHANGED <<args, outside, card_call, rerun, par, batches, success_count, splitCalls, ret>>

(***************************************************************************)
(* The response of the first attempt arrives and the sender handles it:    *)
(* success branch, rate-limit branch (ntfy), or failure.                   *)
(***************************************************************************)
HandleResponse ==
    /\ pc = "inflight"
    /\ \E r \in Responses :
        IF Raises(channel, r) /\ ~ExceptionCaught(channel, 1)
        THEN /\ log' = Append(log, RespEv(r))
             /\ pc' = "raised"
             /\ error' = "TransportError"
             /\ UNCHANGED <<idx, success_count, ret>>
        ELSE IF BatchOk(channel, r)
        THEN /\ success_count' = IF channel \in BestEffortChannels
                                 THEN CountSuccess(success_count) ELSE success_count
             /\ IF idx < total_batches
                THEN /\ log' = log \o <<RespEv(r), SleepEv(Interval(channel, server_url, batch_interval))>>
                     /\ pc' = "sleeping"
                     /\ UNCHANGED idx
                ELSE /\ log' = Append(log, RespEv(r))
                     /\ pc' = "loop"
                     /\ idx' = idx + 1
             /\ UNCHANGED <<ret, error>>
        ELSE IF ShouldRetry(channel, r)
        THEN /\ log' = log \o <<RespEv(r), SleepEv(RateLimitBackoff)>>
             /\ pc' = "backoff"
             /\ UNCHANGED <<idx, success_count, ret, error>>
        ELSE /\ log' = Append(log, RespEv(r))
             /\ IF OnFailure(channel) = "return_false"
                THEN /\ pc' = "done"
                     /\ ret' = "False"
                     /\ UNCHANGED idx
                ELSE /\ pc' = "loop"
                     /\ idx' = idx + 1
                     /\ UNCHANGED ret
             /\ UNCHANGED <<success_count, error>>
    /\ UNCHANGED <<args, outside, card_call, rerun, par, headers, batches, splitCalls>>

(***************************************************************************)
(* time.sleep(interval) between batches returns.                           *)
(***************************************************************************)
Wake ==
    /\ pc = "sleeping"
    /\ pc' = "loop"
    /\ idx' = idx + 1
    /\ UNCHANGED <<args, outside, card_call, rerun, par, headers, batches, success_count, splitCalls, log, ret, error>>

(***************************************************************************)
(* time.sleep(10) returns and send_to_ntfy posts the same batch again.     *)
(***************************************************************************)
RetryPost ==
    /\ pc = "backoff"
    /\ LET batch_content == reversed_batches[idx]
           actual_batch_num == ActualBatchNum(channel, total_batches, idx)
       IN  log' = Append(log, ReqEv(batch_content.num, actual_batch_num,
                           CurrentHeaders(channel, headers, total_batches, actual_batch_num),
                           2, batch_content.size,
                           CardOf(channel, batch_content, idx, total_batches, podcast_data)))
    /\ pc' = AwaitResponse(2)
    /\ UNCHANGED <<args, outside, card_call, rerun, par, headers, batches, idx, success_count, splitCalls, ret, error>>

(***************************************************************************)
(* The response of the retry arrives: counted when 200, final otherwise.   *)
(* An exception of the retry is caught by the except clauses of the loop.  *)
(***************************************************************************)
HandleRetryResponse ==
    /\ pc = "retry_inflight"
    /\ \E r \in Responses :
        /\ log' = Append(log, RespEv(r))
        /\ IF Raises(channel, r) /\ ~ExceptionCaught(channel, 2)
           THEN /\ pc' = "raised"
                /\ error' = "TransportError"
                /\ UNCHANGED <<idx, success_count>>
           ELSE /\ success_count' = CountRetry(success_count, r)
                /\ pc' = "loop"
                /\ idx' = idx + 1
                /\ UNCHANGED error
    /\ UNCHANGED <<args, outside, card_call, rerun, par, headers, batches, splitCalls, ret>>

(***************************************************************************)
(* The loop is over: the sender returns its verdict.                       *)
(***************************************************************************)
ReturnVerdict ==
    /\ pc = "loop"
    /\ idx > total_batches
    /\ pc' = "done"
    /\ ret' = Verdict(channel, success_count, total_batches)
    /\ UNCHANGED <<args, outside, card_call, rerun, par, headers, batches, idx, success_count, splitCalls, log, error>>

Next ==
    \/ Entry
    \/ SplitContent
    \/ PostBatch
    \/ HandleResponse
    \/ Wake
    \/ RetryPost
    \/ HandleRetryResponse
    \/ ReturnVerdict

Spec == Init /\ [][Next]_vars

(***************************************************************************)
(* Reading the log.                                                        *)
(***************************************************************************)
IsReq(p) == p \in 1..Len(log) /\ log[p].ev = "req"
IsResp(p) == p \in 1..Len(log) /\ log[p].ev = "resp"
ReqPositions == { p \in 1..Len(log) : log[p].ev = "req" }
RequestsFor(k) == { p \in ReqPositions : log[p].k = k }
FirstAttempts == SelectSeq(log, LAMBDA e : e.ev = "req" /\ e.att = 1)

\* What the platform said: the response is an acceptance of the batch.
Accepted(ch, r) == r.status = 200 /\ (ch = "ntfy" \/ r.body = "match")

\* Batch k was delivered: the last request that carried it was accepted.
Delivered(k) ==
    \E p \in RequestsFor(k) :
        /\ \A q \in RequestsFor(k) : q <= p
        /\ IsResp(p + 1)
        /\ Accepted(channel, log[p + 1].r)
DeliveredBatches == { k \in 1..total_batches : Delivered(k) }

\* Batches for which at least one request was issued.
ProcessedBatches == { k \in 1..total_batches : RequestsFor(k) # {} }

(***************************************************************************)
(* C1  Strict-order short-circuit.  In a strict-order sender (Feishu,      *)
(* DingTalk, WeWork, Telegram, Slack) the first failed send (non-200,      *)
(* success-field mismatch or transport exception) is the last thing the    *)
(* call does on the wire: no later request is issued, and the call has     *)
(* returned False.                                                         *)
(***************************************************************************)
C1_StrictShortCircuit ==
    channel \in StrictChannels =>
        \A p \in 1..Len(log) :
            (log[p].ev = "resp" /\ ~Accepted(channel, log[p].r)) =>
                /\ p = Len(log)
                /\ pc = "done"
                /\ ret = "False"

\* Batch 2 of 3 failed in a strict-order sender: two requests, no third.
C1_Witness ==
    /\ cred
    /\ channel \in StrictChannels
    /\ total_batches = 3
    /\ Cardinality(ReqPositions) = 2
    /\ IsResp(Len(log)) /\ ~Accepted(channel, log[Len(log)].r)
    /\ ret = "False"

(***************************************************************************)
(* C2  Best-effort partial success.  When send_to_ntfy or send_to_bark     *)
(* returns after splitting into n >= 1 batches, a request was issued for   *)
(* every one of the n batches, success_count is the number of batches      *)
(* delivered, and the value returned is True iff success_count >= 1.       *)
(***************************************************************************)
C2_BestEffortPartialSuccess ==
    (channel \in BestEffortChannels /\ pc = "done" /\ total_batches >= 1) =>
        /\ \A k \in 1..total_batches : \E p \in RequestsFor(k) : log[p].att = 1
        /\ success_count = Cardinality(DeliveredBatches)
        /\ (ret = "True") <=> (success_count >= 1)

\* 2 of 3 batches delivered, the call returned True.
C2_Witness ==
    /\ cred
    /\ channel \in BestEffortChannels
    /\ pc = "done"
    /\ total_batches = 3
    /\ Cardinality(DeliveredBatches) = 2
    /\ success_count = 2
    /\ ret = "True"

(***************************************************************************)
(* C3  Rate-limit retry is counted once.  In send_to_ntfy the step that    *)
(* receives a 200 for the retry of a batch that was answered 429 adds      *)
(* exactly 1 to success_count (and any other retry response adds 0), and   *)
(* always success_count <= batches processed so far <= total_batches.      *)
(***************************************************************************)
C3_CountBounds ==
    channel = "ntfy" =>
        /\ success_count <= Cardinality(ProcessedBatches)
        /\ Cardinality(ProcessedBatches) <= total_batches
        /\ success_count = Cardinality(DeliveredBatches)

C3_RetryStep ==
    (channel = "ntfy" /\ pc = "retry_inflight" /\ pc' # "retry_inflight") =>
        /\ IsResp(Len(log) - 2) /\ log[Len(log) - 2].r.status = 429
        /\ success_count' =
             success_count + (IF log'[Len(log')].r.status = 200 THEN 1 ELSE 0)

C3_RetryCountedOnce == [] C3_CountBounds /\ [][C3_RetryStep]_vars

\* A batch answered 429 and then 200 on the retry, counted.
C3_Witness ==
    /\ cred
    /\ channel = "ntfy"
    /\ success_count = 1
    /\ \E p \in 1..Len(log) :
        /\ IsResp(p) /\ log[p].r.status = 429
        /\ IsReq(p + 2) /\ log[p + 2].att = 2
        /\ IsResp(p + 3) /\ log[p + 3].r.status = 200

(***************************************************************************)
(* C4  Retry exactly once.  A second request for a batch is issued only by *)
(* send_to_ntfy, only for a batch whose first attempt was answered 429,    *)
(* only after the 10 second sleep, and at most once: a batch is carried by *)
(* at most 2 requests in ntfy and by at most 1 request in every other      *)
(* sender, whatever the responses are.  A first attempt of ntfy answered   *)
(* 429 is followed by the 10 second sleep and then by the retry.           *)
(***************************************************************************)
C4_RetryExactlyOnce ==
    /\ \A p \in ReqPositions :
          log[p].att = 2 =>
            /\ channel = "ntfy"
            /\ p >= 4
            /\ log[p - 1] = SleepEv(10)
            /\ log[p - 2].ev = "resp" /\ log[p - 2].r.status = 429
            /\ log[p - 3].ev = "req" /\ log[p - 3].att = 1 /\ log[p - 3].k = log[p].k
    /\ \A k \in 1..total_batches :
          /\ Cardinality({ p \in RequestsFor(k) : log[p].att = 1 }) <= 1
          /\ Cardinality({ p \in RequestsFor(k) : log[p].att = 2 }) <= 1
          /\ Cardinality(RequestsFor(k)) <= (IF channel = "ntfy" THEN 2 ELSE 1)
    /\ \A p \in ReqPositions :
          (channel = "ntfy" /\ log[p].att = 1 /\ IsResp(p + 1) /\ log[p + 1].r.status = 429) =>
            /\ p + 2 <= Len(log) /\ log[p + 2] = SleepEv(10)
            /\ (p + 3 <= Len(log) =>
                    log[p + 3].ev = "req" /\ log[p + 3].att = 2 /\ log[p + 3].k = log[p].k)

\* The retry of a batch was answered 429 again and ntfy went on to the next batch.
C4_Witness ==
    /\ cred
    /\ channel = "ntfy"
    /\ \E p \in ReqPositions :
        /\ log[p].att = 2
        /\ IsResp(p + 1) /\ log[p + 1].r.status = 429
        /\ IsReq(p + 2) /\ log[p + 2].att = 1 /\ log[p + 2].k # log[p].k

(***************************************************************************)
(* C5  Missing credential.  A call without a usable credential does not    *)
(* call the splitter, issues no request, and ends by returning the         *)
(* MissingCredential failure.                                              *)
(***************************************************************************)
C5_MissingCredential ==
    ~cred =>
        /\ splitCalls = 0
        /\ ReqPositions = {}
        /\ pc # "raised"
        /\ (pc = "done" => ret = "False" /\ error = "MissingCredential")

(***************************************************************************)
(* C6  No exception escapes dispatch.  No send_to_* call ends by raising:  *)
(* every call that ends has returned True or False.                        *)
(***************************************************************************)
C6_NoExceptionEscapes ==
    /\ pc # "raised"
    /\ (pc = "done" => ret \in {"True", "False"})

(***************************************************************************)
(* C7  Empty report.  When splitting and header attachment returned zero   *)
(* batches, the sender issues no request, does not sleep, and the only     *)
(* thing it does is return True.                                           *)
(***************************************************************************)
C7_EmptyReport ==
    (splitCalls = 1 /\ pc \notin {"split", "raised"} /\ total_batches = 0) =>
        /\ log = <<>>
        /\ pc \in {"loop", "done"}
        /\ (pc = "loop" => idx > total_batches)
        /\ (pc = "done" => ret = "True")

\* A best-effort sender returned True for zero batches.
C7_Witness ==
    /\ cred
    /\ channel \in BestEffortChannels
    /\ splitCalls = 1
    /\ total_batches = 0
    /\ pc = "done"
    /\ ret = "True"
    /\ log = <<>>

(***************************************************************************)
(* C8  Send order and logical numbering.  The j-th batch put on the wire   *)
(* by send_to_ntfy or send_to_bark is the batch whose header reads k/n     *)
(* with k = n - j + 1, the number reported for it is that k, and the ntfy  *)
(* Title carries (k/n) iff n > 1; the forward senders put batch j on the   *)
(* wire j-th.  A retry carries the batch, number and title of its first    *)
(* attempt.                                                                *)
(***************************************************************************)
C8_SendOrder ==
    /\ \A j \in 1..Len(FirstAttempts) :
          LET e == FirstAttempts[j]
              n == total_batches
          IN  IF channel \in BestEffortChannels
              THEN /\ e.k = n - j + 1
                   /\ e.rep = e.k
                   /\ (channel = "ntfy" /\ n > 1 => e.title = e.k)
                   /\ (channel = "ntfy" /\ n = 1 => e.title = 0)
              ELSE /\ e.k = j
                   /\ e.rep = j
    /\ \A p \in ReqPositions :
          log[p].att = 2 =>
            /\ log[p].k = log[p - 3].k
            /\ log[p].rep = log[p - 3].rep
            /\ log[p].title = log[p - 3].title

\* ntfy has put all of 3 batches on the wire: 3, 2, 1.
C8_Witness ==
    /\ cred
    /\ channel = "ntfy"
    /\ total_batches = 3
    /\ Len(FirstAttempts) = 3
    /\ FirstAttempts[1].k = 3
    /\ FirstAttempts[3].k = 1
    /\ pc = "done"

(***************************************************************************)
(* C10  BudgetExhausted.  When the header reserve of the channel's format  *)
(* is >= batch_size, a call that gets as far as the splitter (every call   *)
(* but send_to_bark with a URL without device_key, which has returned      *)
(* before) ends with BudgetExhausted; no batch exists and no request is    *)
(* issued at any time.                                                     *)
(***************************************************************************)
C10_BudgetExhausted ==
    get_max_batch_header_size(header_format) >= batch_size =>
        /\ batches = <<>>
        /\ log = <<>>
        /\ ret # "True"
        /\ pc \in {"entry", "split", "done", "raised"}
        /\ (pc = "raised" => error = "BudgetExhausted")
        /\ (pc = "done" => channel = "bark" /\ ~cred /\ error = "MissingCredential")

\* The splitter was called with max_bytes <= 0 and the call ended there.
C10_Witness ==
    /\ cred
    /\ get_max_batch_header_size(header_format) >= batch_size
    /\ splitCalls = 1
    /\ pc = "raised"
    /\ error = "BudgetExhausted"

(***************************************************************************)
(* More reading of the log.                                                *)
(***************************************************************************)
\* Number of batches put on the wire up to position p of the log.
SentUpTo(p) == Cardinality({ q \in ReqPositions : q <= p /\ log[q].att = 1 })

\* The response at position p ends a batch: it is not a 429 that ntfy retries.
EndsBatch(p) ==
    /\ IsResp(p)
    /\ ~(channel = "ntfy" /\ log[p - 1].att = 1 /\ log[p].r.status = 429)

(***************************************************************************)
(* C11  Inter-batch pacing.  In every batching sender a response that      *)
(* accepts a batch (first attempt or rate-limit retry) while more batches  *)
(* remain is followed by a sleep of the inter-batch delay, and then by the *)
(* next request; a response that ends the last batch, or that fails a      *)
(* batch, is not followed by a sleep.                                      *)
(***************************************************************************)
C11_InterBatchPacing ==
    \A p \in 1..Len(log) :
        EndsBatch(p) =>
            IF Accepted(channel, log[p].r) /\ SentUpTo(p) < total_batches
            THEN /\ p < Len(log)
                 /\ log[p + 1] = SleepEv(Interval(channel, server_url, batch_interval))
            ELSE p < Len(log) => log[p + 1].ev # "sleep"

(***************************************************************************)
(* C12  Sequential dispatch within a channel.  At most one request is in   *)
(* flight; a request is issued only when the response of the previous one  *)
(* is in the log and has been handled, by a step of its own that starts    *)
(* from the top of the loop or from the end of the backoff sleep; while    *)
(* the sender sleeps nothing is in flight and nothing is issued.           *)
(***************************************************************************)
InFlight == Cardinality(ReqPositions) - Cardinality({ p \in 1..Len(log) : log[p].ev = "resp" })

C12_OneInFlight ==
    /\ InFlight \in {0, 1}
    /\ (InFlight = 1) <=> (pc \in {"inflight", "retry_inflight"})
    /\ \A p \in ReqPositions :
          p > 1 => \/ log[p - 1].ev = "resp"
                   \/ log[p - 1].ev = "sleep" /\ log[p - 2].ev = "resp"
    /\ (pc \in {"sleeping", "backoff"} => log[Len(log)].ev = "sleep")

C12_IssueStep ==
    (Len(log') > Len(log) /\ log'[Len(log')].ev = "req") =>
        /\ Len(log') = Len(log) + 1
        /\ pc \in {"loop", "backoff"}
        /\ InFlight = 0

C12_Sequential == [] C12_OneInFlight /\ [][C12_IssueStep]_vars

\* The rate-limit retry of the second batch is in flight, alone.
C12_Witness ==
    /\ cred
    /\ channel = "ntfy"
    /\ pc = "retry_inflight"
    /\ InFlight = 1
    /\ Cardinality(ReqPositions) >= 3

(***************************************************************************)
(* C13  Transport errors are ordinary batch failures.  An exception raised *)
(* by requests.post (first attempt or ntfy retry) never leaves the sender; *)
(* a strict-order sender returns False at once; ntfy and bark do not count *)
(* the batch, do not retry it, go on with the next batch, and return only  *)
(* after a request was issued for every batch.                             *)
(***************************************************************************)
C13_TransportErrors ==
    \A p \in 1..Len(log) :
        (IsResp(p) /\ log[p].r.status = 0) =>
            /\ pc # "raised"
            /\ error = "none"
            /\ IF channel \in StrictChannels
               THEN p = Len(log) /\ pc = "done" /\ ret = "False"
               ELSE /\ ~Delivered(log[p - 1].k)
                    /\ (p < Len(log) =>
                          IsReq(p + 1) /\ log[p + 1].att = 1 /\ log[p + 1].k # log[p - 1].k)
                    /\ (p = Len(log) => pc \in {"loop", "done"})
                    /\ (pc = "done" => ProcessedBatches = 1..total_batches)

\* The retry request of ntfy raised and ntfy went on to the next batch.
C13_Witness ==
    /\ cred
    /\ channel = "ntfy"
    /\ \E p \in ReqPositions :
        /\ log[p].att = 2
        /\ IsResp(p + 1) /\ log[p + 1].r.status = 0
        /\ IsReq(p + 2) /\ log[p + 2].k # log[p].k

(***************************************************************************)
(* C14  Platform rejection equals HTTP failure.  In every sender with a    *)
(* platform success field (all but ntfy) the step that handles a 200 whose *)
(* field does not match and the step that handles a non-200 response lead  *)
(* from the same state to the same state: nothing is counted, no sleep is  *)
(* called, a strict-order sender has returned False, bark is at the top of *)
(* the loop for the next batch.  Only the response in the log differs.     *)
(***************************************************************************)
IsRejection(r) == r.status = 200 /\ r.body = "mismatch"
IsHttpFailure(r) == r.status \notin {0, 200}

FailedBatchStep(r) ==
    /\ log' = Append(log, RespEv(r))
    /\ success_count' = success_count
    /\ batches' = batches
    /\ error' = error
    /\ splitCalls' = splitCalls
    /\ IF channel \in StrictChannels
       THEN pc' = "done" /\ ret' = "False" /\ idx' = idx
       ELSE pc' = "loop" /\ ret' = ret /\ idx' = idx + 1

C14_Step ==
    (pc = "inflight" /\ channel # "ntfy" /\ Len(log') > Len(log)) =>
        LET r == log'[Len(log) + 1].r
        IN  (IsRejection(r) \/ IsHttpFailure(r)) => FailedBatchStep(r)

C14_RejectionEqualsHttpFailure == [][C14_Step]_vars

\* Bark got a 200 with code # 200 for a batch, counted nothing and posted the next batch.
C14_Witness ==
    /\ cred
    /\ channel = "bark"
    /\ success_count = 0
    /\ \E p \in 1..Len(log) :
        /\ IsResp(p) /\ IsRejection(log[p].r)
        /\ IsReq(p + 1) /\ log[p + 1].k # log[p - 1].k

Outcome ==
    IF ret = "True" /\ Cardinality(DeliveredBatches) = total_batches THEN "Succeeded"
    ELSE IF ret = "True" /\ Cardinality(DeliveredBatches) > 0 THEN "PartialSuccess"
    ELSE IF ret = "False" THEN "Failed"
    ELSE "none"

C16_VerdictsOfReturns ==
    pc = "done" =>
        /\ Outcome \in {"Succeeded", "PartialSuccess", "Failed"}
        /\ (channel \in StrictChannels =>
              ((ret = "True") <=>
                  /\ ProcessedBatches = 1..total_batches
                  /\ DeliveredBatches = 1..total_batches
                  /\ splitCalls = 1))
        /\ (Outcome = "PartialSuccess" => channel \in BestEffortChannels)

C16_TerminalVerdicts ==
    /\ pc # "raised"
    /\ C16_VerdictsOfReturns

(***************************************************************************)
(* Readers of a card.                                                      *)
(***************************************************************************)
KindsOf(c) == { c.elements[j].kind : j \in 1..Len(c.elements) }
HasButtons(c) == "buttons" \in KindsOf(c)
HasPlaceholder(c) == "placeholder" \in KindsOf(c)
CardsWithButtons == { p \in ReqPositions : HasButtons(log[p].card) }

\* C19: side content only on the designated batch.  Every card send_to_feishu
\* posts was built with include_podcast_sections true exactly for batch 1 and
\* with include_podcast_summaries false, and at most one of the cards of a
\* call has podcast buttons.
C19_SideContentOnDesignatedBatch ==
    channel = "feishu" =>
        /\ \A p \in ReqPositions :
            /\ log[p].sections = (log[p].k = 1)
            /\ ~log[p].summaries
            /\ "summary" \notin KindsOf(log[p].card)
            /\ (HasButtons(log[p].card) => log[p].k = 1)
        /\ Cardinality(CardsWithButtons) <= 1

\* A feishu call that delivered all of its three batches, the first with buttons.
C19_Witness ==
    /\ channel = "feishu" /\ cred
    /\ pc = "done" /\ ret = "True"
    /\ total_batches = MaxBatches
    /\ Cardinality(ReqPositions) = MaxBatches
    /\ Cardinality(CardsWithButtons) = 1
    /\ \E p \in ReqPositions : log[p].k = total_batches /\ ~log[p].sections

(***************************************************************************)
(* A direct call of build_feishu_card_payload (the builder is a public     *)
(* function, also used for previews).  The arguments are drawn from        *)
(* dicts of up to MaxEntries entries; entry j has keyword Keywords[j]      *)
(* unless its shape is the one with an empty keyword.                      *)
(***************************************************************************)
MaxEntries == 4
Keywords == <<"k1", "k2", "k3", "k4", "k5">>

Shapes == {"notdict", "blank", "url_only", "summary_only", "full", "nokey"}

EntryOf(shape, j) ==
    CASE shape = "notdict"      -> Entry_(Keywords[j], FALSE, <<"u">>, <<"a">>, 1)
      [] shape = "blank"        -> Entry_(Keywords[j], TRUE, PyNone, <<" ">>, 0)
      [] shape = "url_only"     -> Entry_(Keywords[j], TRUE, <<" ", "u">>, PyNone, 0)
      [] shape = "summary_only" -> Entry_(Keywords[j], TRUE, <<>>, <<"a", "a", "a", " ">>, 2)
      [] shape = "full"         -> Entry_(Keywords[j], TRUE, <<"u">>, <<"a">>, 1)
      [] shape = "nokey"        -> Entry_("", TRUE, <<"u">>, <<"a">>, 1)

\* Keys of a dict are distinct: the empty keyword occurs at most once.
Dicts ==
    { [j \in 1..Len(sh) |-> EntryOf(sh[j], j)] :
        sh \in { q \in SeqsUpTo(Shapes, MaxEntries) :
                    Cardinality({ j \in 1..Len(q) : q[j] = "nokey" }) <= 1 } }

BuildArgs ==
    [called : {TRUE},
     report_type : {"report_type"},
     batch_content : {<<"a">>, <<" ", "a", " ">>},
     podcast_data : {NoPodcast} \cup { Podcast(d) : d \in Dicts },
     include_podcast_sections : BOOLEAN,
     include_podcast_summaries : BOOLEAN,
     include_podcast_buttons : BOOLEAN,
     max_summary_chars_per_keyword : {0, 2},
     max_keywords_in_card : {0, 2}]

InitCard ==
    /\ OutsideIdle
    /\ build_args \in BuildArgs
    /\ payload = NoPayload
    /\ channel = "feishu" /\ msg_type = "markdown" /\ server_url = "selfhosted"
    /\ cred = TRUE /\ statsOk = TRUE /\ batch_size = MaxBatchSize
    /\ batch_interval = 1
    /\ token = FALSE /\ headers = NoHeaders
    /\ podcast_data = NoPodcast
    /\ run = 1 /\ prev = NoPrev
    /\ calls = <<>> /\ solo = <<>> /\ counter = <<>>
    /\ pc = "none" /\ batches = <<>> /\ idx = 0 /\ success_count = 0
    /\ splitCalls = 0 /\ log = <<>> /\ ret = "none" /\ error = "none"

BuildCard ==
    /\ build_args.called
    /\ payload = NoPayload
    /\ payload' =
          IF BuilderRaises(build_args.include_podcast_sections, build_args.podcast_data)
          THEN RaisedPayload
          ELSE build_feishu_card_payload(
                      build_args.report_type, build_args.batch_content,
                      build_args.podcast_data, build_args.include_podcast_sections,
                      build_args.include_podcast_summaries,
                      build_args.include_podcast_buttons,
                      build_args.max_summary_chars_per_keyword,
                      build_args.max_keywords_in_card)
    /\ UNCHANGED <<args, outside, build_args, rerun, par, headers, pc, batches, idx, success_count,
                   splitCalls, log, ret, error>>

NextCard == BuildCard

SpecCard == InitCard /\ [][NextCard]_vars

\* The entries of podcast_data that have a non-empty audio_url (and are not
\* skipped for their keyword or type).
WithLink(pd) ==
    IF pd.none THEN <<>>
    ELSE SelectSeq(UsableItems(pd.entries), LAMBDA it : it.audio_url # <<>>)

\* The card has something of the podcast section.
HasPodcastSection(c) == KindsOf(c) \ {"batch"} # {}

\* C20: visible placeholder.  A card built with include_podcast_sections from
\* side data with no usable entry (none or empty podcast_data, every entry
\* skipped, or no entry with a non-empty audio_url) contains the placeholder
\* note.
C20_VisiblePlaceholder ==
    ( /\ payload # NoPayload
      /\ build_args.include_podcast_sections
      /\ WithLink(build_args.podcast_data) = <<>> )
    => HasPlaceholder(payload)

(***************************************************************************)
(* The same call made a second time.  CallAgain starts the function again  *)
(* with the arguments of the call that has returned.  The locals of the    *)
(* first call are gone; the model leaves their old values in the           *)
(* variables, so that the second call sees only what its own assignments   *)
(* put there.  The second call gets the split result and the responses of  *)
(* the first.                                                              *)
(***************************************************************************)
CallAgain ==
    /\ pc = "done"
    /\ run = 1
    /\ run' = 2
    /\ prev' = [log |-> log, ret |-> ret, batches |-> batches]
    /\ pc' = "entry"
    /\ log' = <<>>
    /\ ret' = "none"
    /\ error' = "none"
    /\ splitCalls' = 0
    /\ UNCHANGED <<args, outside, card_call, par, headers, batches, idx, success_count>>

\* The splitter returns for the same report what it returned before.
SameSplit == run = 2 => (pc' = "loop" /\ batches' = prev.batches)

\* The transport answers the request as it answered it in the first call.
SameResponse ==
    run = 2 => /\ Len(log) + 1 <= Len(prev.log)
               /\ log'[Len(log) + 1] = prev.log[Len(log) + 1]

NextRerun ==
    \/ Entry
    \/ SplitContent /\ SameSplit
    \/ PostBatch
    \/ HandleResponse /\ SameResponse
    \/ Wake
    \/ RetryPost
    \/ HandleRetryResponse /\ SameResponse
    \/ ReturnVerdict
    \/ CallAgain

SpecRerun == Init /\ [][NextRerun]_vars

RequestsOf(l) == SelectSeq(l, LAMBDA e : e.ev = "req")

Frame ==
    [channel |-> channel, msg_type |-> msg_type, server_url |-> server_url,
     cred |-> cred, statsOk |-> statsOk, batch_size |-> batch_size,
     batch_interval |-> batch_interval, token |-> token, headers |-> headers,
     podcast_data |-> podcast_data, pc |-> pc, batches |-> batches, idx |-> idx,
     success_count |-> success_count, log |-> log, ret |-> ret, error |-> error]

FTotal(f) == Len(f.batches)

\* The request for the batch at the loop index of the frame.
FRequest(f, att) ==
    LET batch_content == SendList(f.channel, f.batches)[f.idx]
        actual_batch_num == ActualBatchNum(f.channel, FTotal(f), f.idx)
    IN  ReqEv(batch_content.num, actual_batch_num,
              CurrentHeaders(f.channel, f.headers, FTotal(f), actual_batch_num),
              att, batch_content.size,
              CardOf(f.channel, batch_content, f.idx, FTotal(f), f.podcast_data))

StepEntry(f) ==
    IF f.channel = "bark" /\ ~f.cred
    THEN [f EXCEPT !.pc = "done", !.ret = "False", !.error = "MissingCredential"]
    ELSE [f EXCEPT !.pc = "split", !.headers = BaseHeaders(f.channel, f.token)]

StepSplit(f, chunks) ==
    LET hf == HeaderFormat(f.channel, f.msg_type)
        max_bytes == MaxBytes(f.batch_size, hf)
    IN  IF SplitRaises(max_bytes)
        THEN [f EXCEPT !.pc = "raised", !.error = "BudgetExhausted"]
        ELSE IF HeaderOverflows(chunks, hf, f.batch_size)
        THEN [f EXCEPT !.pc = "raised", !.error = "HeaderOverflow"]
        ELSE [f EXCEPT !.batches = add_batch_headers(chunks, hf, f.batch_size),
                       !.idx = LoopStart(f.idx),
                       !.success_count = 0,
                       !.pc = "loop"]

StepLoop(f) ==
    IF f.idx > FTotal(f)
    THEN [f EXCEPT !.pc = "done", !.ret = Verdict(f.channel, f.success_count, FTotal(f))]
    ELSE IF f.channel = "feishu" /\ ~f.statsOk
    THEN [f EXCEPT !.pc = "raised", !.error = "KeyError"]
    ELSE IF /\ f.channel = "feishu"
            /\ BuilderRaises(IncludePodcastSections(f.idx, FTotal(f)), f.podcast_data)
    THEN [f EXCEPT !.pc = "raised", !.error = "AttributeError"]
    ELSE IF DropsOversize(f.channel, SendList(f.channel, f.batches)[f.idx].size)
    THEN [f EXCEPT !.idx = @ + 1]
    ELSE [f EXCEPT !.log = Append(@, FRequest(f, 1)),
                   !.headers = BaseAfterCopy(@, CurrentHeaders(f.channel, f.headers, FTotal(f),
                                   ActualBatchNum(f.channel, FTotal(f), f.idx))),
                   !.pc = AwaitResponse(1)]

StepResponse(f, r) ==
    IF Raises(f.channel, r) /\ ~ExceptionCaught(f.channel, 1)
    THEN [f EXCEPT !.log = Append(@, RespEv(r)), !.pc = "raised",
                   !.error = "TransportError"]
    ELSE IF BatchOk(f.channel, r)
    THEN LET g == [f EXCEPT !.success_count =
                        IF f.channel \in BestEffortChannels THEN CountSuccess(@) ELSE @]
         IN  IF f.idx < FTotal(f)
             THEN [g EXCEPT !.log = @ \o <<RespEv(r),
                                           SleepEv(Interval(f.channel, f.server_url,
                                                            f.batch_interval))>>,
                            !.pc = "sleeping"]
             ELSE [g EXCEPT !.log = Append(@, RespEv(r)), !.pc = "loop", !.idx = @ + 1]
    ELSE IF ShouldRetry(f.channel, r)
    THEN [f EXCEPT !.log = @ \o <<RespEv(r), SleepEv(RateLimitBackoff)>>,
                   !.pc = "backoff"]
    ELSE IF OnFailure(f.channel) = "return_false"
    THEN [f EXCEPT !.log = Append(@, RespEv(r)), !.pc = "done", !.ret = "False"]
    ELSE [f EXCEPT !.log = Append(@, RespEv(r)), !.pc = "loop", !.idx = @ + 1]

StepWake(f) == [f EXCEPT !.pc = "loop", !.idx = @ + 1]

StepRetryPost(f) == [f EXCEPT !.log = Append(@, FRequest(f, 2)), !.pc = AwaitResponse(2)]

StepRetryResponse(f, r) ==
    IF Raises(f.channel, r) /\ ~ExceptionCaught(f.channel, 2)
    THEN [f EXCEPT !.log = Append(@, RespEv(r)), !.pc = "raised",
                   !.error = "TransportError"]
    ELSE [f EXCEPT !.log = Append(@, RespEv(r)),
                   !.success_count = CountRetry(@, r),
                   !.pc = "loop", !.idx = @ + 1]

\* The step of the position the frame is at; chunks is what the splitter
\* returns and r what the transport answers, where the step asks for them.
StepFrame(f, chunks, r) ==
    CASE f.pc = "entry"          -> StepEntry(f)
      [] f.pc = "split"          -> StepSplit(f, chunks)
      [] f.pc = "loop"           -> StepLoop(f)
      [] f.pc = "inflight"       -> StepResponse(f, r)
      [] f.pc = "sleeping"       -> StepWake(f)
      [] f.pc = "backoff"        -> StepRetryPost(f)
      [] f.pc = "retry_inflight" -> StepRetryResponse(f, r)
      [] OTHER                   -> f

\* Every step of a sender is the step of its frame.
StepsAgree ==
    [][\E r \in Responses :
         \E chunks \in SplitResults(MaxBytes(batch_size, header_format)) \cup {<<>>} :
            Frame' = StepFrame(Frame, chunks, r)]_vars

(***************************************************************************)
(* Two calls for distinct channels in progress at once, their steps        *)
(* interleaved in every order.  calls[c] is the frame of call c.  Each     *)
(* call updates its counter where the code keeps it: success_count is a    *)
(* local of the function, a slot of its own for every call.  solo[c] is    *)
(* the same call running alone: it takes the step of call c whenever call  *)
(* c does, with the same split result and the same response.               *)
(***************************************************************************)
MaxParBatches == 2
Calls == {1, 2}

ParFrames(ch) ==
    [channel : {ch}, msg_type : {"markdown"}, server_url : {"selfhosted"},
     cred : (IF ch = "bark" THEN BOOLEAN ELSE {TRUE}),
     statsOk : (IF ch = "feishu" THEN BOOLEAN ELSE {TRUE}),
     batch_size : {MaxBatchSize}, batch_interval : {1},
     token : {FALSE}, headers : {NoHeaders}, podcast_data : {NoPodcast},
     pc : {"entry"}, batches : {<<>>}, idx : {0}, success_count : {0},
     log : {<<>>}, ret : {"none"}, error : {"none"}]

ParSplitResults(f) ==
    { chunks \in SplitResults(MaxBytes(f.batch_size, HeaderFormat(f.channel, f.msg_type))) :
        Len(chunks) <= MaxParBatches }

\* The pairs of distinct channels, each pair once.
ChannelOrder == <<"feishu", "dingtalk", "wework", "telegram", "slack", "ntfy", "bark">>
ChannelPairs ==
    { ij \in (1..Len(ChannelOrder)) \X (1..Len(ChannelOrder)) : ij[1] < ij[2] }

\* One response of each kind the senders tell apart: accepted, rejected in
\* the body, rate-limited, exception.
ParResponses == { r \in Responses : r.status \in {0, 429} \/ r.body \in {"match", "mismatch"} }

InitPar ==
    /\ OutsideIdle
    /\ \E ij \in ChannelPairs :
        \E fa \in ParFrames(ChannelOrder[ij[1]]), fb \in ParFrames(ChannelOrder[ij[2]]) :
            calls = <<fa, fb>>
    /\ solo = calls
    /\ counter = <<0, 0>>
    /\ channel = "feishu" /\ msg_type = "markdown" /\ server_url = "selfhosted"
    /\ cred = TRUE /\ statsOk = TRUE /\ batch_size = MaxBatchSize
    /\ batch_interval = 1
    /\ token = FALSE /\ headers = NoHeaders
    /\ podcast_data = NoPodcast
    /\ build_args = NoBuild /\ payload = NoPayload
    /\ run = 1 /\ prev = NoPrev
    /\ pc = "none" /\ batches = <<>> /\ idx = 0 /\ success_count = 0
    /\ splitCalls = 0 /\ log = <<>> /\ ret = "none" /\ error = "none"

\* Variant: the counter is one module-level variable for all calls.
CounterSlotShared(c) == 1

\* success_count = 0 ... success_count += 1: a local of the call.
CounterSlot(c) == c

\* The frame of call c as the call sees it.
Load(c) == [calls[c] EXCEPT !.success_count = counter[CounterSlot(c)]]

ParApply(c, chunks, r) ==
    LET after == StepFrame(Load(c), chunks, r)
    IN  /\ calls' = [calls EXCEPT ![c] = after]
        /\ counter' = [counter EXCEPT ![CounterSlot(c)] = after.success_count]
        /\ solo' = [solo EXCEPT ![c] = StepFrame(solo[c], chunks, r)]
        /\ UNCHANGED <<args, outside, card_call, rerun, headers, pc, batches, idx, success_count,
                       splitCalls, log, ret, error>>

\* A step that asks nothing of the splitter or the transport.
ParStep(c) ==
    /\ calls[c].pc \in {"entry", "loop", "sleeping", "backoff"}
    /\ ParApply(c, <<>>, NoResp)

ParSplit(c) ==
    /\ calls[c].pc = "split"
    /\ \E chunks \in ParSplitResults(calls[c]) : ParApply(c, chunks, NoResp)

ParRespond(c) ==
    /\ calls[c].pc \in {"inflight", "retry_inflight"}
    /\ \E r \in ParResponses : ParApply(c, <<>>, r)

NextPar == \E c \in Calls : ParStep(c) \/ ParSplit(c) \/ ParRespond(c)

SpecPar == InitPar /\ [][NextPar]_vars

ShownItems(a) ==
    IF ~Truthy(a.podcast_data) THEN <<>>
    ELSE CapItems(UsableItems(a.podcast_data.entries), a.max_keywords_in_card)

ElementsOfKind(c, kind) == SelectSeq(c.elements, LAMBDA e : e.kind = kind)

\* C21: summary cap.  Every summary text in the card has at most
\* max_summary_chars_per_keyword characters: it is the stripped summary when
\* that fits, and empty when the cap is not positive.
C21_SummaryCap ==
    payload # NoPayload =>
        LET summaries == ElementsOfKind(payload, "summary")
            max_chars == build_args.max_summary_chars_per_keyword
        IN  \A j \in 1..Len(summaries) :
                /\ Len(summaries[j].content) <= max_chars
                /\ max_chars <= 0 => summaries[j].content = <<>>
                /\ (max_chars > 0 /\ Len(ShownItems(build_args)[j].summary) <= max_chars)
                      => summaries[j].content = ShownItems(build_args)[j].summary

\* C22: payload builder purity.  A call of build_feishu_card_payload issues
\* no request and leaves its arguments (podcast_data and batch_content among
\* them) as they were; the card it returns starts with the markdown element
\* that holds batch_content as given.
C22_Step ==
    payload' # payload =>
        /\ build_args' = build_args
        /\ log' = log
        /\ payload'.msg_type = "interactive"
        /\ Len(payload'.elements) >= 1
        /\ payload'.elements[1].tag = "markdown"
        /\ payload'.elements[1].content = build_args.batch_content

C22_BuilderPurity == [][C22_Step]_vars

\* A card with a podcast section built around a batch text with blanks at
\* both ends.
C22_Witness ==
    /\ payload # NoPayload
    /\ build_args.batch_content = <<" ", "a", " ">>
    /\ HasButtons(payload)
    /\ Len(ElementsOfKind(payload, "summary")) >= 2

(***************************************************************************)
(* A call of send_to_feishu with side data that has nothing to show, next  *)
(* to the same call without side data: calls[1] has the podcast_data,      *)
(* solo[1] has None, and both get the same split result and responses.     *)
(***************************************************************************)
MissingSamples ==
    { NoPodcast,
      Podcast(<<>>),
      Podcast(<<EntryOf("notdict", 1)>>),
      Podcast(<<EntryOf("blank", 1)>>),
      Podcast(<<EntryOf("notdict", 1), EntryOf("blank", 2)>>) }

InitSide ==
    /\ OutsideIdle
    /\ \E f \in ParFrames("feishu"), pd \in MissingSamples :
        /\ calls = <<[f EXCEPT !.podcast_data = pd]>>
        /\ solo = <<f>>
    /\ counter = <<0>>
    /\ channel = "feishu" /\ msg_type = "markdown" /\ server_url = "selfhosted"
    /\ cred = TRUE /\ statsOk = TRUE /\ batch_size = MaxBatchSize
    /\ batch_interval = 1
    /\ token = FALSE /\ headers = NoHeaders
    /\ podcast_data = NoPodcast
    /\ build_args = NoBuild /\ payload = NoPayload
    /\ run = 1 /\ prev = NoPrev
    /\ pc = "none" /\ batches = <<>> /\ idx = 0 /\ success_count = 0
    /\ splitCalls = 0 /\ log = <<>> /\ ret = "none" /\ error = "none"

NextSide == ParStep(1) \/ ParSplit(1) \/ ParRespond(1)

SpecSide == InitSide /\ [][NextSide]_vars

\* C23: missing side data never fails a dispatch.  With podcast_data None,
\* empty, or made of entries that are not dicts or have neither audio_url nor
\* summary, send_to_feishu issues the requests (same batches, same order,
\* same cards) and returns the verdict of the call without side data, and
\* the card builder does not raise.
C23_MissingSideData ==
    /\ calls[1].log = solo[1].log
    /\ calls[1].pc = solo[1].pc
    /\ calls[1].ret = solo[1].ret
    /\ calls[1].error = solo[1].error
    /\ calls[1].error # "AttributeError"

\* The call with a non-dict entry and a blank entry has delivered two batches.
C23_Witness ==
    /\ calls[1].podcast_data = Podcast(<<EntryOf("notdict", 1), EntryOf("blank", 2)>>)
    /\ calls[1].pc = "done" /\ calls[1].ret = "True"
    /\ FTotal(calls[1]) = MaxParBatches
    /\ Len(RequestsOf(calls[1].log)) = MaxParBatches

(***************************************************************************)
(* The budget a sender derives.                                            *)
(***************************************************************************)
\* The header format the channel is to use: wework_text for the text mode of
\* wework, otherwise the name of the channel.
FormatOfCall ==
    IF channel = "wework" /\ msg_type = "text" THEN "wework_text" ELSE channel

\* C25: budget derivation.  The step that splits hands the splitter
\* batch_size minus the reserve of the format of the call, and the batches
\* are the chunks the splitter returns for that budget under headers of the
\* same format, checked against the full batch_size.
C25_Step ==
    splitCalls' = splitCalls + 1 =>
        LET f == FormatOfCall
            reserve == get_max_batch_header_size(f)
            max_bytes == batch_size - reserve
        IN  IF max_bytes <= 0
            THEN pc' = "raised" /\ error' = "BudgetExhausted"
            ELSE \E chunks \in SplitResults(max_bytes) :
                    IF \E i \in 1..Len(chunks) : reserve + chunks[i] > batch_size
                    THEN pc' = "raised" /\ error' = "HeaderOverflow"
                    ELSE /\ pc' = "loop"
                         /\ Len(batches') = Len(chunks)
                         /\ \A i \in 1..Len(chunks) :
                                /\ batches'[i].format = f
                                /\ batches'[i].size = reserve + chunks[i]
                                /\ batches'[i].size <= batch_size

C25_BudgetDerivation == [][C25_Step]_vars

\* send_to_wework in text mode has split a report into three batches.
C25_Witness ==
    /\ channel = "wework" /\ msg_type = "text" /\ cred
    /\ pc = "loop" /\ idx = 1
    /\ total_batches = MaxBatches
    /\ \A i \in 1..total_batches :
          batches[i].format = "wework_text" /\ batches[i].size = batch_size

(***************************************************************************)
(* A call that is not held up: the body of a sender is sequential code,    *)
(* requests.post is called with a timeout and time.sleep returns, so the   *)
(* step the call is at is taken.                                           *)
(***************************************************************************)
SpecLive == Init /\ [][Next]_vars /\ WF_vars(Next)

Terminated == pc \in {"done", "raised"}

RequestLimit == IF channel = "ntfy" THEN 2 * total_batches ELSE total_batches

AllAccepted == \A p \in 1..Len(log) : log[p].ev = "resp" => Accepted(channel, log[p].r)

C26_RequestBound == Cardinality(ReqPositions) <= RequestLimit

C26_ExactlyOnce ==
    (pc = "done" /\ AllAccepted) =>
        /\ Cardinality(ReqPositions) = total_batches
        /\ \A k \in 1..total_batches : Cardinality(RequestsFor(k)) = 1

\* C26: every call terminates; it issues at most n requests for n batches,
\* at most 2n in send_to_ntfy; when every request is accepted at its first
\* attempt each batch is sent exactly once, n requests in all.
C26_TerminatesWithinBound ==
    /\ [](C26_RequestBound /\ C26_ExactlyOnce)
    /\ <>Terminated

\* send_to_ntfy has returned after sending each of three batches twice.
C26_Witness ==
    /\ channel = "ntfy" /\ cred
    /\ pc = "done"
    /\ total_batches = MaxBatches
    /\ Cardinality(ReqPositions) = 2 * MaxBatches

SleepPositions == { p \in 1..Len(log) : log[p].ev = "sleep" }

\* C27: ntfy pacing by destination.  A sleep follows a response; in
\* send_to_ntfy it lasts 10 seconds after a 429, else 2 seconds for ntfy.sh
\* and 1 second for another server; in the other senders it lasts the
\* batch_interval of the caller.
C27_PacingByDestination ==
    \A p \in SleepPositions :
        /\ p > 1
        /\ log[p - 1].ev = "resp"
        /\ log[p].secs =
              IF channel = "ntfy"
              THEN IF log[p - 1].r.status = 429 THEN 10
                   ELSE IF server_url = "ntfy.sh" THEN 2 ELSE 1
              ELSE batch_interval

\* send_to_ntfy to ntfy.sh has slept 2 seconds after a batch and 10 seconds
\* after a 429.
C27_Witness ==
    /\ channel = "ntfy" /\ server_url = "ntfy.sh" /\ cred
    /\ pc = "done"
    /\ \E p \in SleepPositions : log[p].secs = 2
    /\ \E p \in SleepPositions : log[p].secs = 10

\* C28: ntfy per-batch headers.  Once built, the base header map keeps the
\* plain title and has Authorization iff a token was supplied; a request
\* carries the number of its batch in the Title iff there is more than one
\* batch, and Authorization iff a token was supplied; the retry request is
\* the request of the first attempt again.
C28_PerBatchHeaders ==
    channel = "ntfy" =>
        /\ pc # "entry" => headers = [Title |-> 0, Authorization |-> token]
        /\ \A p \in ReqPositions :
            /\ log[p].title = IF total_batches > 1 THEN log[p].k ELSE 0
            /\ log[p].auth = token
            /\ log[p].att = 2 =>
                  /\ p > 3
                  /\ log[p - 3].ev = "req"
                  /\ log[p - 3] = [log[p] EXCEPT !.att = 1]

\* send_to_ntfy with a token has sent three batches, the second one twice.
C28_Witness ==
    /\ channel = "ntfy" /\ cred /\ token
    /\ pc = "done"
    /\ total_batches = MaxBatches
    /\ \E p \in ReqPositions : log[p].att = 2 /\ log[p].k = 2 /\ log[p].title = 2
    /\ Cardinality(ReqPositions) = MaxBatches + 1

(***************************************************************************)
(* What a card shows of the podcast entries.                               *)
(***************************************************************************)
\* The buttons of the card, row after row.
RECURSIVE ButtonsOfRows(_)
ButtonsOfRows(rows) ==
    IF rows = <<>> THEN <<>> ELSE Head(rows).actions \o ButtonsOfRows(Tail(rows))

\* The usable entries of the call in podcast_data order, the first
\* max_keywords_in_card of them when that is positive.
EntriesToShow(a) ==
    LET usable == IF Truthy(a.podcast_data) THEN UsableItems(a.podcast_data.entries)
                  ELSE <<>>
        cap == a.max_keywords_in_card
    IN  IF cap > 0 /\ Len(usable) > cap THEN SubSeq(usable, 1, cap) ELSE usable

KeywordsOf(items) == [j \in 1..Len(items) |-> items[j].keyword]

\* C29: card size limits.  The card shows the usable entries in podcast_data
\* order, at most max_keywords_in_card of them when that is positive: its
\* summaries are theirs, its buttons are those of the shown entries that have
\* a link, one each, in rows of 1 to 3 buttons.
C29_CardLimits ==
    (payload # NoPayload /\ payload # RaisedPayload) =>
        LET shown == EntriesToShow(build_args)
            linked == SelectSeq(shown, LAMBDA it : it.audio_url # <<>>)
            rows == ElementsOfKind(payload, "buttons")
            buttons == ButtonsOfRows(rows)
            summaries == ElementsOfKind(payload, "summary")
        IN  /\ \A j \in 1..Len(rows) : Len(rows[j].actions) \in 1..3
            /\ (build_args.max_keywords_in_card > 0
                  => Len(shown) <= build_args.max_keywords_in_card)
            /\ IF build_args.include_podcast_sections /\ build_args.include_podcast_buttons
               THEN /\ Len(buttons) = Len(linked)
                    /\ \A j \in 1..Len(buttons) :
                          buttons[j] = Button(linked[j].keyword, linked[j].audio_url)
               ELSE buttons = <<>>
            /\ IF build_args.include_podcast_sections /\ build_args.include_podcast_summaries
               THEN KeywordsOf(summaries) = KeywordsOf(shown)
               ELSE summaries = <<>>

\* An uncapped card of four entries with links: a row of three buttons and a
\* row of one.
C29_Witness ==
    /\ payload # NoPayload /\ payload # RaisedPayload
    /\ build_args.max_keywords_in_card = 0
    /\ Len(ElementsOfKind(payload, "buttons")) = 2
    /\ Len(ButtonsOfRows(ElementsOfKind(payload, "buttons"))) = 4

(***************************************************************************)
(* send_podcast_to_feishu: one card with a keyword block and a listen      *)
(* button per entry of podcast_data that has an audio link.  podcast_data  *)
(* is a Dict[str, Dict] (or None): every value is a dict.                  *)
(***************************************************************************)
PodcastShapes == (Shapes \ {"notdict"}) \cup {"space"}

PodcastEntryOf(shape, j) ==
    IF shape = "space" THEN Entry_(Keywords[j], TRUE, <<" ">>, <<"a">>, 1)
    ELSE EntryOf(shape, j)

PodcastDicts ==
    { [j \in 1..Len(sh) |-> PodcastEntryOf(sh[j], j)] :
        sh \in { q \in SeqsUpTo(PodcastShapes, MaxEntries) :
                    Cardinality({ j \in 1..Len(q) : q[j] = "nokey" }) <= 1 } }

\* Variant: an entry with a summary is kept as well.
HasAudioOrSummary(e) ==
    \/ e.audio_url # PyNone /\ e.audio_url # <<>>
    \/ e.summary # PyNone /\ e.summary # <<>>

\* if not audio_url: continue -- the entries that are shown
HasAudio(e) == e.audio_url # PyNone /\ e.audio_url # <<>>

\* summary[:150] + "..." if len(summary) > 150 else summary
PreviewChars == 150
SummaryPreview(summary) ==
    IF summary = PyNone \/ summary = <<>> THEN <<>>
    ELSE IF Len(summary) > PreviewChars
    THEN SubSeq(summary, 1, PreviewChars) \o <<".", ".", ".">>
    ELSE summary

\* The body of the loop over podcast_data.items(): keyword block, action
\* element with one button, divider.
RECURSIVE PodcastBlocks(_)
PodcastBlocks(entries) ==
    IF entries = <<>> THEN <<>>
    ELSE LET e == Head(entries)
         IN  IF ~HasAudio(e) THEN PodcastBlocks(Tail(entries))
             ELSE <<Element("markdown", "keyword", e.keyword, e.article_count,
                            SummaryPreview(e.summary), <<>>, <<>>),
                    Element("action", "listen", "", 0, <<>>, <<>>,
                            <<Button(e.keyword, e.audio_url)>>),
                    Element("hr", "hr", "", 0, <<>>, <<>>, <<>>)>>
                  \o PodcastBlocks(Tail(entries))

\* if elements and elements[-1].get("tag") == "hr": elements.pop()
PopTrailingHr(elements) ==
    IF elements # <<>> /\ elements[Len(elements)].tag = "hr"
    THEN SubSeq(elements, 1, Len(elements) - 1)
    ELSE elements

\* The payload send_podcast_to_feishu posts.
podcast_payload(pdata) ==
    [msg_type |-> "interactive",
     title |-> "podcast",
     elements |->
        PopTrailingHr(
            <<Element("markdown", "podcast_title", "", 0, <<>>, <<>>, <<>>),
              Element("hr", "hr", "", 0, <<>>, <<>>, <<>>)>>
            \o PodcastBlocks(pdata.entries))
        \o <<Element("note", "validity", "", 0, <<>>, <<>>, <<>>)>>]

InitPodcast ==
    /\ OutsideIdle
    /\ podcast_data \in {NoPodcast} \cup { Podcast(d) : d \in PodcastDicts }
    /\ pc = "podcast_start"
    /\ build_args = NoBuild /\ payload = NoPayload
    /\ channel = "feishu" /\ msg_type = "markdown" /\ server_url = "selfhosted"
    /\ cred = TRUE /\ statsOk = TRUE /\ batch_size = MaxBatchSize
    /\ batch_interval = 1
    /\ token = FALSE /\ headers = NoHeaders
    /\ run = 1 /\ prev = NoPrev
    /\ calls = <<>> /\ solo = <<>> /\ counter = <<>>
    /\ batches = <<>> /\ idx = 0 /\ success_count = 0
    /\ splitCalls = 0 /\ log = <<>> /\ ret = "none" /\ error = "none"

\* if not podcast_data: return False
PodcastSkip ==
    /\ pc = "podcast_start"
    /\ ~Truthy(podcast_data)
    /\ ret' = "False"
    /\ pc' = "done"
    /\ UNCHANGED <<args, outside, card_call, rerun, par, headers, batches, idx, success_count,
                   splitCalls, log, error>>

\* The card is built and posted.
PodcastPost ==
    /\ pc = "podcast_start"
    /\ Truthy(podcast_data)
    /\ log' = Append(log, ReqEv(1, 1, NoHeaders, 1, 0,
                                [sections |-> TRUE, summaries |-> TRUE,
                                 card |-> podcast_payload(podcast_data)]))
    /\ pc' = "podcast_posted"
    /\ UNCHANGED <<args, outside, card_call, rerun, par, headers, batches, idx, success_count,
                   splitCalls, ret, error>>

\* The response, or the exception the try block catches.
PodcastResponse ==
    /\ pc = "podcast_posted"
    /\ \E r \in Responses :
          /\ log' = Append(log, RespEv(r))
          /\ ret' = IF BatchOk("feishu", r) THEN "True" ELSE "False"
    /\ pc' = "done"
    /\ UNCHANGED <<args, outside, card_call, rerun, par, headers, batches, idx, success_count,
                   splitCalls, error>>

NextPodcast == PodcastSkip \/ PodcastPost \/ PodcastResponse

SpecPodcast == InitPodcast /\ [][NextPodcast]_vars

\* C30: the podcast card.  With empty podcast_data the call returns False
\* and sends nothing.  Otherwise it sends exactly one request; the card of
\* that request has one keyword block and one listen button for each entry
\* with a non-empty audio_url, in order, and nothing for the other entries;
\* the call returns True iff the response is a 200 whose body carries
\* StatusCode = 0 or code = 0.
C30_PodcastCard ==
    LET empty == podcast_data.none \/ podcast_data.entries = <<>>
        reqs == { p \in 1..Len(log) : log[p].ev = "req" }
    IN  /\ empty => reqs = {} /\ (pc = "done" => ret = "False")
        /\ (~empty /\ pc # "podcast_start") =>
              /\ reqs = {1}
              /\ LET card == log[1].card
                     linked == SelectSeq(podcast_data.entries,
                                   LAMBDA e : e.audio_url # PyNone /\ e.audio_url # <<>>)
                     blocks == ElementsOfKind(card, "keyword")
                     listens == ElementsOfKind(card, "listen")
                 IN  /\ Len(blocks) = Len(linked)
                     /\ Len(listens) = Len(linked)
                     /\ \A j \in 1..Len(linked) :
                           /\ blocks[j].keyword = linked[j].keyword
                           /\ listens[j].actions
                                 = <<Button(linked[j].keyword, linked[j].audio_url)>>
        /\ (~empty /\ pc = "done") =>
              /\ Len(log) = 2 /\ log[2].ev = "resp"
              /\ ret \in {"True", "False"}
              /\ (ret = "True") <=> (log[2].r.status = 200 /\ log[2].r.body = "match")

\* A call accepted by the server whose podcast_data has entries with a link
\* and entries without one.
C30_Witness ==
    /\ pc = "done" /\ ret = "True"
    /\ Len(log) = 2 /\ log[1].ev = "req"
    /\ Len(ElementsOfKind(log[1].card, "listen")) \in 1..(Len(podcast_data.entries) - 1)
    /\ \E j \in 1..Len(podcast_data.entries) :
          podcast_data.entries[j].audio_url = <<" ">>

(***************************************************************************)
(* The state of the batch senders while another function is called.        *)
(***************************************************************************)
senders == <<args, card_call, rerun, par, headers, pc, batches, idx, success_count,
             splitCalls, log, ret, error>>

SendersIdle ==
    /\ channel = "feishu" /\ msg_type = "markdown" /\ server_url = "selfhosted"
    /\ cred = TRUE /\ statsOk = TRUE /\ batch_size = MaxBatchSize
    /\ batch_interval = 1
    /\ token = FALSE /\ headers = NoHeaders
    /\ podcast_data = NoPodcast
    /\ build_args = NoBuild /\ payload = NoPayload
    /\ run = 1 /\ prev = NoPrev
    /\ calls = <<>> /\ solo = <<>> /\ counter = <<>>
    /\ pc = "none" /\ batches = <<>> /\ idx = 0 /\ success_count = 0
    /\ splitCalls = 0 /\ log = <<>> /\ ret = "none" /\ error = "none"

(***************************************************************************)
(* send_to_email.  The SMTP server is the environment: every call on the   *)
(* connection completes or raises.                                         *)
(***************************************************************************)
PresetDomains ==
    {"gmail.com", "qq.com", "outlook.com", "hotmail.com", "live.com", "163.com",
     "126.com", "sina.com", "sohu.com", "189.cn", "aliyun.com"}

\* SMTP_CONFIGS: port and encryption of each preset domain.
SMTP_CONFIGS ==
    [d \in PresetDomains |->
        CASE d = "gmail.com"   -> [server |-> "smtp.gmail.com", port |-> 587, encryption |-> "TLS"]
          [] d = "qq.com"      -> [server |-> "smtp.qq.com", port |-> 465, encryption |-> "SSL"]
          [] d = "outlook.com" -> [server |-> "smtp-mail.outlook.com", port |-> 587, encryption |-> "TLS"]
          [] d = "hotmail.com" -> [server |-> "smtp-mail.outlook.com", port |-> 587, encryption |-> "TLS"]
          [] d = "live.com"    -> [server |-> "smtp-mail.outlook.com", port |-> 587, encryption |-> "TLS"]
          [] d = "163.com"     -> [server |-> "smtp.163.com", port |-> 465, encryption |-> "SSL"]
          [] d = "126.com"     -> [server |-> "smtp.126.com", port |-> 465, encryption |-> "SSL"]
          [] d = "sina.com"    -> [server |-> "smtp.sina.com", port |-> 465, encryption |-> "SSL"]
          [] d = "sohu.com"    -> [server |-> "smtp.sohu.com", port |-> 465, encryption |-> "SSL"]
          [] d = "189.cn"      -> [server |-> "smtp.189.cn", port |-> 465, encryption |-> "SSL"]
          [] d = "aliyun.com"  -> [server |-> "smtp.aliyun.com", port |-> 465, encryption |-> "TLS"]]

\* Domains of from_email: the presets and one that is not a preset.
EmailDomains == PresetDomains \cup {"example.org"}

\* custom_smtp_port: None (0) or a port number.
CustomPorts == {0, 25, 465, 587}

\* html_file_path: empty, the path of no file, of a file open() cannot read,
\* of a readable file.
HtmlFiles == {"empty", "missing", "unreadable", "readable"}

\* if not html_file_path or not Path(html_file_path).exists()
NoHtmlFile(html) == html \in {"empty", "missing"}

\* The server, port and use_tls the function selects.
SmtpConfig(domain, custom_smtp_server, custom_smtp_port) ==
    IF custom_smtp_server /\ custom_smtp_port # 0
    THEN [server |-> "custom", port |-> custom_smtp_port,
          use_tls |-> IF custom_smtp_port = 465 THEN FALSE ELSE TRUE]
    ELSE IF domain \in DOMAIN SMTP_CONFIGS
    THEN [server |-> SMTP_CONFIGS[domain].server, port |-> SMTP_CONFIGS[domain].port,
          use_tls |-> SMTP_CONFIGS[domain].encryption = "TLS"]
    ELSE [server |-> "smtp.domain", port |-> 587, use_tls |-> TRUE]

\* Variant: the message is sent before the login.
SmtpCallsSendFirst(use_tls) ==
    IF use_tls THEN <<"SMTP", "ehlo", "starttls", "ehlo", "send_message", "login", "quit">>
    ELSE <<"SMTP_SSL", "ehlo", "send_message", "login", "quit">>

\* The calls of smtplib the inner try block makes, in order.
SmtpCalls(use_tls) ==
    IF use_tls THEN <<"SMTP", "ehlo", "starttls", "ehlo", "login", "send_message", "quit">>
    ELSE <<"SMTP_SSL", "ehlo", "login", "send_message", "quit">>

\* What a call of smtplib can raise; each is caught by one of the except
\* clauses of send_to_email.
SmtpErrors ==
    {"SMTPServerDisconnected", "SMTPAuthenticationError", "SMTPRecipientsRefused",
     "SMTPSenderRefused", "SMTPDataError", "SMTPConnectError", "OSError"}

InitEmail ==
    /\ SendersIdle
    /\ call = NoCall /\ mgr = NoMgr
    /\ \E d \in EmailDomains, h \in HtmlFiles, cs \in BOOLEAN, cp \in CustomPorts :
          mail = [pc |-> "start", domain |-> d, html_file_path |-> h,
                  custom_smtp_server |-> cs, custom_smtp_port |-> cp,
                  smtp_server |-> "none", smtp_port |-> 0, use_tls |-> FALSE,
                  done |-> <<>>, failed |-> "none", exc |-> "none", ret |-> "none"]

\* return False: no HTML file
EmailNoFile ==
    /\ mail.pc = "start"
    /\ NoHtmlFile(mail.html_file_path)
    /\ mail' = [mail EXCEPT !.pc = "done", !.ret = "False"]
    /\ UNCHANGED <<senders, call, mgr>>

\* The file is read, the configuration selected and the message built; a
\* file that cannot be read raises into the outer except Exception.
EmailBuild ==
    /\ mail.pc = "start"
    /\ ~NoHtmlFile(mail.html_file_path)
    /\ IF mail.html_file_path = "unreadable"
       THEN mail' = [mail EXCEPT !.pc = "done", !.exc = "OSError", !.ret = "False"]
       ELSE LET config == SmtpConfig(mail.domain, mail.custom_smtp_server,
                                     mail.custom_smtp_port)
            IN  mail' = [mail EXCEPT !.pc = "smtp", !.smtp_server = config.server,
                                     !.smtp_port = config.port,
                                     !.use_tls = config.use_tls]
    /\ UNCHANGED <<senders, call, mgr>>

\* The next call of smtplib: it completes, or it raises and the function
\* returns False; after server.quit() the function returns True.
EmailSmtp ==
    /\ mail.pc = "smtp"
    /\ LET todo == SmtpCalls(mail.use_tls)
           c == todo[Len(mail.done) + 1]
       IN  \/ mail' = [mail EXCEPT !.done = Append(@, c),
                          !.pc = IF Len(mail.done) + 1 = Len(todo) THEN "done" ELSE "smtp",
                          !.ret = IF Len(mail.done) + 1 = Len(todo) THEN "True" ELSE "none"]
           \/ \E e \in SmtpErrors :
                 mail' = [mail EXCEPT !.failed = c, !.exc = e, !.pc = "done",
                                      !.ret = "False"]
    /\ UNCHANGED <<senders, call, mgr>>

NextEmail == EmailNoFile \/ EmailBuild \/ EmailSmtp

SpecEmail == InitEmail /\ [][NextEmail]_vars

\* The first call on the connection, if one was attempted.
FirstSmtpCall ==
    IF mail.done # <<>> THEN mail.done[1] ELSE mail.failed

\* C31: SMTP encryption follows the port.  Once the configuration is
\* selected, port 465 goes with implicit SSL (SMTP_SSL, no starttls) and
\* port 587 with STARTTLS (SMTP followed by starttls).
C31_EncryptionFollowsPort ==
    mail.smtp_port # 0 =>
        /\ mail.smtp_port = 465 =>
              /\ ~mail.use_tls
              /\ FirstSmtpCall \in {"none", "SMTP_SSL"}
              /\ \A j \in 1..Len(mail.done) : mail.done[j] # "starttls"
        /\ mail.smtp_port = 587 =>
              /\ mail.use_tls
              /\ FirstSmtpCall \in {"none", "SMTP"}
              /\ (mail.ret = "True" => \E j \in 1..Len(mail.done) : mail.done[j] = "starttls")

\* C32: outcome of send_to_email.  Without an HTML file the call returns
\* False and no SMTP call is made; True is returned only after the
\* connection, login and send_message have completed in that order; a call
\* of smtplib that raises makes the function return False.
C32_EmailOutcome ==
    /\ NoHtmlFile(mail.html_file_path) =>
          /\ mail.done = <<>> /\ mail.failed = "none"
          /\ mail.pc = "done" => mail.ret = "False"
    /\ mail.ret = "True" =>
          \E i, j, k \in 1..Len(mail.done) :
             /\ i < j /\ j < k
             /\ mail.done[i] \in {"SMTP", "SMTP_SSL"}
             /\ mail.done[j] = "login"
             /\ mail.done[k] = "send_message"
    /\ mail.failed # "none" => mail.pc = "done" /\ mail.ret = "False"
    /\ mail.pc = "done" => mail.ret \in {"True", "False"}

\* A message sent over STARTTLS, and a call that failed at the login.
C32_Witness ==
    /\ mail.pc = "done"
    /\ \/ mail.ret = "True" /\ mail.use_tls
       \/ mail.ret = "False" /\ mail.failed = "login"

(***************************************************************************)
(* The podcast collaborators: one call of ContentFetcher.fetch_content, of *)
(* NewsSummarizer.summarize or of AudioGenerator.generate.  The HTTP       *)
(* services, the TTS engine and the file system are the environment.       *)
(* call.log holds the requests (with the response each got) and the        *)
(* sleeps; call.files counts the files written.                            *)
(***************************************************************************)
MaxRetries == 2

\* Responses of the Jina reader: a 200 whose JSON has code 200, a 200 whose
\* JSON has another code, and the failures the except clauses name.
FetchResponses == {"ok", "api_error", "timeout", "http_error", "network", "parse"}

\* Variant: an API-level error is retried like the other failures.
RetriedFailureAny(r) == r # "ok"

\* The responses that raise inside the try block and set last_error.
RetriedFailure(r) == r \in {"timeout", "http_error", "network", "parse"}

\* wait_time = (attempt + 1) * 2
WaitTime(attempt) == (attempt + 1) * 2

CallReq(r) == [ev |-> "req", r |-> r, secs |-> 0]
CallSleep(secs) == [ev |-> "sleep", r |-> "none", secs |-> secs]

\* The result object of a collaborator: error "" is the empty string.
NoResult == [success |-> FALSE, error |-> "unset"]
Failed(err) == [success |-> FALSE, error |-> err]
Succeeded == [success |-> TRUE, error |-> ""]

\* str(e) of the exception a service call raised.
ServiceErrors == {"timeout", "http_error", "network", "parse"}

SummarizerProviders == {"", "openai", "deepseek", "302ai", "custom"}
TtsProviders == {"", "edge", "openai", "302ai", "azure", "custom"}

\* Texts handed to generate: None, empty, blank, a sentence.
TtsTexts == {PyNone, <<>>, <<" ">>, <<"a">>}

\* Arguments and configuration of the call.
CollabCalls ==
    { [fn |-> "fetch_content", api_key |-> k, max_retries |-> m, provider |-> "",
       articles |-> 0, text |-> <<>>] : k \in BOOLEAN, m \in 0..MaxRetries }
    \cup
    { [fn |-> "summarize", api_key |-> k, max_retries |-> 0, provider |-> p,
       articles |-> n, text |-> <<>>] :
          k \in BOOLEAN, p \in SummarizerProviders, n \in 0..2 }
    \cup
    { [fn |-> "generate", api_key |-> k, max_retries |-> 0, provider |-> p,
       articles |-> 0, text |-> t] :
          k \in BOOLEAN, p \in TtsProviders, t \in TtsTexts }

InitCollab ==
    /\ SendersIdle
    /\ mail = NoMail /\ mgr = NoMgr
    /\ \E a \in CollabCalls :
          call = [pc |-> "start", a |-> a, attempt |-> 0, last_error |-> "",
                  log |-> <<>>, files |-> 0, raised |-> "none", result |-> NoResult]

\* The validation at the head of each function: the error it returns, or
\* "" when the call goes on.
Rejected(a) ==
    CASE a.fn = "fetch_content" ->
            IF ~a.api_key THEN "no JINA_API_KEY" ELSE ""
      [] a.fn = "summarize" ->
            IF a.provider = "" THEN "no provider"
            ELSE IF ~a.api_key THEN "no API key"
            ELSE IF a.articles = 0 THEN "no articles"
            ELSE ""
      [] a.fn = "generate" ->
            IF a.provider = "" THEN "no provider"
            ELSE IF a.provider # "edge" /\ ~a.api_key THEN "no API key"
            ELSE IF a.text = PyNone \/ strip(a.text) = <<>> THEN "empty text"
            ELSE ""

\* The head of the function: the validation, and in generate the creation
\* of the output directory, which raises when the directory cannot be made.
CollabStart ==
    /\ call.pc = "start"
    /\ IF Rejected(call.a) # ""
       THEN call' = [call EXCEPT !.pc = "done", !.result = Failed(Rejected(call.a))]
       ELSE IF call.a.fn = "generate"
       THEN \/ call' = [call EXCEPT !.pc = "work"]
            \/ call' = [call EXCEPT !.pc = "done", !.raised = "OSError"]
       ELSE call' = [call EXCEPT !.pc = "work"]
    /\ UNCHANGED <<senders, mail, mgr>>

\* One pass of the retry loop of fetch_content: the request, and the sleep
\* that follows a failure that is not the last.
FetchAttempt ==
    /\ call.pc = "work" /\ call.a.fn = "fetch_content"
    /\ call.attempt <= call.a.max_retries
    /\ \E r \in FetchResponses :
          IF r = "ok"
          THEN call' = [call EXCEPT !.log = Append(@, CallReq(r)), !.pc = "done",
                                    !.result = Succeeded]
          ELSE IF ~RetriedFailure(r)
          THEN call' = [call EXCEPT !.log = Append(@, CallReq(r)), !.pc = "done",
                                    !.result = Failed("api_error")]
          ELSE IF call.attempt < call.a.max_retries
          THEN call' = [call EXCEPT
                           !.log = @ \o <<CallReq(r), CallSleep(WaitTime(call.attempt))>>,
                           !.last_error = r, !.attempt = @ + 1]
          ELSE call' = [call EXCEPT !.log = Append(@, CallReq(r)), !.last_error = r,
                                    !.attempt = @ + 1, !.pc = "done",
                                    !.result = Failed(r)]
    /\ UNCHANGED <<senders, mail, mgr>>

\* _call_llm_api inside the try block of summarize.
SummarizeCall ==
    /\ call.pc = "work" /\ call.a.fn = "summarize"
    /\ \E r \in {"ok"} \cup ServiceErrors :
          call' = [call EXCEPT !.log = Append(@, CallReq(r)), !.pc = "done",
                               !.result = IF r = "ok" THEN Succeeded ELSE Failed(r)]
    /\ UNCHANGED <<senders, mail, mgr>>

\* The try block of generate: Edge TTS writes the file itself, the OpenAI
\* compatible providers answer a request and the data is written to the
\* file, azure raises NotImplementedError, another provider is refused.
GenerateCall ==
    /\ call.pc = "work" /\ call.a.fn = "generate"
    /\ CASE call.a.provider = "edge" ->
               \/ call' = [call EXCEPT !.pc = "done", !.files = @ + 1,
                                       !.result = Succeeded]
               \/ \E e \in {"Edge TTS failed", "ImportError"} :
                     call' = [call EXCEPT !.pc = "done", !.result = Failed(e)]
         [] call.a.provider \in {"openai", "302ai"} ->
               \/ call' = [call EXCEPT !.log = Append(@, CallReq("ok")), !.pc = "done",
                                       !.files = @ + 1, !.result = Succeeded]
               \/ call' = [call EXCEPT !.log = Append(@, CallReq("ok")), !.pc = "done",
                                       !.result = Failed("OSError")]
               \/ \E r \in ServiceErrors :
                     call' = [call EXCEPT !.log = Append(@, CallReq(r)), !.pc = "done",
                                          !.result = Failed(r)]
         [] call.a.provider = "azure" ->
               call' = [call EXCEPT !.pc = "done", !.result = Failed("NotImplementedError")]
         [] OTHER ->
               call' = [call EXCEPT !.pc = "done", !.result = Failed("unsupported provider")]
    /\ UNCHANGED <<senders, mail, mgr>>

NextCollab == CollabStart \/ FetchAttempt \/ SummarizeCall \/ GenerateCall

SpecCollab == InitCollab /\ [][NextCollab]_vars

\* Positions of the requests in the log of the call.
CallReqs == { p \in 1..Len(call.log) : call.log[p].ev = "req" }

\* The number of the attempt a request belongs to, counted from 0.
AttemptOf(p) == Cardinality({ q \in CallReqs : q < p })

\* C33: the retry loop of fetch_content.  At most max_retries + 1 requests
\* are made; the call ends at the first successful response, and at the
\* first API-level error without a retry; a transport, HTTP or parse error
\* is followed by a sleep of (attempt + 1) * 2 seconds and another request,
\* except after the last attempt, where the failed result carries the error
\* of that attempt.
C33_FetchRetry ==
    call.a.fn = "fetch_content" =>
        /\ Cardinality(CallReqs) <= call.a.max_retries + 1
        /\ \A p \in 1..Len(call.log) :
              LET e == call.log[p]
                  last == p = Len(call.log)
              IN  IF e.ev = "sleep"
                  THEN /\ p > 1 /\ call.log[p - 1].ev = "req"
                       /\ call.log[p - 1].r \in {"timeout", "http_error", "network", "parse"}
                       /\ e.secs = (AttemptOf(p - 1) + 1) * 2
                       /\ (call.pc = "done" => ~last)
                  ELSE CASE e.r = "ok" ->
                              /\ last /\ call.pc = "done"
                              /\ call.result.success
                         [] e.r = "api_error" ->
                              /\ last /\ call.pc = "done"
                              /\ ~call.result.success /\ call.result.error # ""
                         [] OTHER ->
                              IF AttemptOf(p) < call.a.max_retries
                              THEN /\ ~last
                                   /\ call.log[p + 1].ev = "sleep"
                              ELSE /\ last /\ call.pc = "done"
                                   /\ call.result = Failed(e.r)
        /\ (call.pc = "done" /\ call.a.api_key) => call.log # <<>>

\* A call that used all its attempts: max_retries + 1 requests with the
\* sleeps 2, 4, ... between them, the last error different from the first.
C33_Witness ==
    /\ call.a.fn = "fetch_content" /\ call.pc = "done"
    /\ call.a.max_retries = MaxRetries
    /\ Cardinality(CallReqs) = MaxRetries + 1
    /\ call.log[2] = CallSleep(2)
    /\ call.log[1].r # call.log[Len(call.log)].r
    /\ ~call.result.success

\* The calls the validation turns away.
FailsFast(a) ==
    CASE a.fn = "fetch_content" -> ~a.api_key
      [] a.fn = "summarize" -> a.provider = "" \/ ~a.api_key \/ a.articles = 0
      [] a.fn = "generate" ->
            \/ a.provider = ""
            \/ a.provider # "edge" /\ ~a.api_key
            \/ a.text \in {PyNone, <<>>, <<" ">>}

\* The validation part of C34: a call that is turned away ends with a
\* failed result and a non-empty error, without a request or a file.
FailFastResult ==
    (call.pc # "none" /\ FailsFast(call.a)) =>
        /\ call.log = <<>> /\ call.files = 0
        /\ call.pc = "done" =>
              ~call.result.success /\ call.result.error \notin {"", "unset"}

\* C34: fail-fast validation.  A call that is turned away ends with a
\* failed result and a non-empty error, without a request or a file, and no
\* call of the three functions ever raises.
C34_FailFastNeverRaises ==
    /\ FailFastResult
    /\ call.pc # "none" => call.raised = "none"

(***************************************************************************)
(* PodcastManager.generate_podcasts.  The content fetcher, the summarizer, *)
(* the audio generator, the storage manager and Litterbox are the          *)
(* environment; mgr.log holds the calls made to them, in order.  A dict is *)
(* a sequence of [keyword, value] pairs in insertion order.                *)
(***************************************************************************)
MaxStats == 2

\* Entries of stat["titles"]: with title and url, without title, without url.
TitleKinds == {"ok", "notitle", "nourl"}

\* Values of stat["titles"]: none, one usable, one unusable before a usable
\* one, three usable.
TitleLists == {<<>>, <<"ok">>, <<"notitle", "ok">>, <<"nourl">>, <<"ok", "ok", "ok">>}

\* Values of stat["word"].
Words == {"", "k1", "k2"}

StatsInputs == SeqsUpTo([word : Words, titles : TitleLists], MaxStats)

\* Values of MAX_KEYWORDS and MAX_ARTICLES_PER_KEYWORD.
KeywordLimits == {1, 2}
ArticleLimits == {1, 2}

\* Variant: the list is not cut.
LimitNone(seq, n) == seq

\* seq[:n] for n >= 0
Limit(seq, n) == IF Len(seq) > n THEN SubSeq(seq, 1, n) ELSE seq

\* d[k] = v: a new key goes to the end, an old key keeps its place.
DictPut(d, k, v) ==
    IF \E j \in 1..Len(d) : d[j].keyword = k
    THEN [j \in 1..Len(d) |-> IF d[j].keyword = k THEN [keyword |-> k, value |-> v] ELSE d[j]]
    ELSE Append(d, [keyword |-> k, value |-> v])

DictKeys(d) == { d[j].keyword : j \in 1..Len(d) }
DictGet(d, k) == (CHOOSE j \in 1..Len(d) : d[j].keyword = k)

\* _extract_articles_from_stats
RECURSIVE ExtractFrom(_, _, _)
ExtractFrom(stats_to_process, max_articles, keyword_articles) ==
    IF stats_to_process = <<>> THEN keyword_articles
    ELSE LET stat == Head(stats_to_process)
             articles == SelectSeq(Limit(stat.titles, max_articles), LAMBDA t : t = "ok")
         IN  IF stat.word = "" \/ stat.titles = <<>> \/ articles = <<>>
             THEN ExtractFrom(Tail(stats_to_process), max_articles, keyword_articles)
             ELSE ExtractFrom(Tail(stats_to_process), max_articles,
                              DictPut(keyword_articles, stat.word, articles))

extract_articles_from_stats(stats, max_keywords, max_articles) ==
    ExtractFrom(Limit(stats, max_keywords), max_articles, <<>>)

\* Variant: a keyword is kept whatever was fetched for it.
HasContentAlways(articles_with_content) == TRUE

\* if articles_with_content: result[keyword] = articles_with_content
HasContent(articles_with_content) == articles_with_content > 0

\* Variant: the fallback is tried after every S3 upload.
NeedsFallbackAlways(s3) == TRUE

\* After the S3 upload _upload_to_storage reaches the Litterbox call: the
\* upload raised or returned no URL.
NeedsFallback(s3) == s3 \in {"raise", "empty"}

\* Variant: a result is a success only when the audio was uploaded.
SuccessOfUploaded(remote_url) == remote_url # ""

\* result.success = True follows the upload attempt unconditionally.
SuccessOf(remote_url) == TRUE

\* PodcastResult(keyword=keyword, article_count=len(articles))
PodcastResult(keyword, article_count) ==
    [keyword |-> keyword, summary |-> "", audio_url |-> "", audio_local_path |-> "",
     article_count |-> article_count, success |-> FALSE, error |-> "",
     steps_completed |-> <<>>]

MgrEv(ev, keyword, out) == [ev |-> ev, keyword |-> keyword, out |-> out]

\* get_audio_urls
get_audio_urls(results) ==
    { [keyword |-> results[j].keyword, audio_url |-> results[j].value.audio_url] :
        j \in { i \in 1..Len(results) :
                  results[i].value.success /\ results[i].value.audio_url # "" } }

InitManager ==
    /\ SendersIdle
    /\ mail = NoMail /\ call = NoCall
    /\ \E en \in BOOLEAN, mk \in KeywordLimits, ma \in ArticleLimits, st \in StatsInputs :
          mgr = [pc |-> "start", enabled |-> en, max_keywords |-> mk,
                 max_articles_per_keyword |-> ma, stats |-> st,
                 keyword_articles |-> <<>>, keyword_contents |-> <<>>,
                 summaries |-> <<>>, results |-> <<>>,
                 ki |-> 1, ai |-> 1, got |-> 0, remote_url |-> "",
                 log |-> <<>>, returned |-> "none"]

\* The ENABLED test and step 1.
MgrStart ==
    /\ mgr.pc = "start"
    /\ IF ~mgr.enabled
       THEN mgr' = [mgr EXCEPT !.pc = "done", !.returned = "results"]
       ELSE LET ka == extract_articles_from_stats(mgr.stats, mgr.max_keywords,
                                                  mgr.max_articles_per_keyword)
            IN  IF ka = <<>>
                THEN mgr' = [mgr EXCEPT !.pc = "done", !.returned = "results"]
                ELSE mgr' = [mgr EXCEPT !.pc = "fetch", !.keyword_articles = ka]
    /\ UNCHANGED <<senders, mail, call>>

\* Step 2, _fetch_contents: one call of fetch_content; after the last
\* article of a keyword the keyword is kept if something was fetched, after
\* the last keyword the function returns when nothing was kept.
MgrFetch ==
    /\ mgr.pc = "fetch"
    /\ \E ok \in BOOLEAN :
          LET entry == mgr.keyword_articles[mgr.ki]
              got == mgr.got + (IF ok THEN 1 ELSE 0)
              last_article == mgr.ai = Len(entry.value)
              last_keyword == mgr.ki = Len(mgr.keyword_articles)
              contents == IF last_article /\ HasContent(got)
                          THEN DictPut(mgr.keyword_contents, entry.keyword, got)
                          ELSE mgr.keyword_contents
              logged == Append(mgr.log, MgrEv("fetch_content", entry.keyword,
                                              IF ok THEN "ok" ELSE "failed"))
          IN  IF ~last_article
              THEN mgr' = [mgr EXCEPT !.log = logged, !.ai = @ + 1, !.got = got]
              ELSE IF ~last_keyword
              THEN mgr' = [mgr EXCEPT !.log = logged, !.keyword_contents = contents,
                                      !.ki = @ + 1, !.ai = 1, !.got = 0]
              ELSE IF contents = <<>>
              THEN mgr' = [mgr EXCEPT !.log = logged, !.pc = "done",
                                      !.returned = "results"]
              ELSE mgr' = [mgr EXCEPT !.log = logged, !.keyword_contents = contents,
                                      !.pc = "summarize", !.ki = 1, !.ai = 1, !.got = 0]
    /\ UNCHANGED <<senders, mail, call>>

\* Step 3: one pass of the loop over keyword_contents.  The summarizer
\* fails, or succeeds with a text that may be empty.
MgrSummarize ==
    /\ mgr.pc = "summarize"
    /\ \E out \in {"failed", "text", "blank"} :
          LET entry == mgr.keyword_contents[mgr.ki]
              fresh == [PodcastResult(entry.keyword, entry.value)
                           EXCEPT !.steps_completed = <<"fetch_content">>]
              result == IF out = "failed"
                        THEN [fresh EXCEPT !.error = "summary failed"]
                        ELSE [fresh EXCEPT !.summary = IF out = "text" THEN "text" ELSE "",
                                           !.steps_completed = Append(@, "summarize")]
              summaries == IF out = "failed" THEN mgr.summaries
                           ELSE DictPut(mgr.summaries, entry.keyword, result.summary)
              last_keyword == mgr.ki = Len(mgr.keyword_contents)
              next == [mgr EXCEPT !.log = Append(@, MgrEv("summarize", entry.keyword, out)),
                                  !.summaries = summaries,
                                  !.results = DictPut(@, entry.keyword, result)]
          IN  IF ~last_keyword THEN mgr' = [next EXCEPT !.ki = @ + 1]
              ELSE IF summaries = <<>>
              THEN mgr' = [next EXCEPT !.pc = "done", !.returned = "results"]
              ELSE mgr' = [next EXCEPT !.pc = "audio", !.ki = 1]
    /\ UNCHANGED <<senders, mail, call>>

\* The loop of step 4 moves to the next summary, or the function returns.
AfterKeyword(m) ==
    IF m.ki = Len(m.summaries)
    THEN [m EXCEPT !.pc = "done", !.returned = "results"]
    ELSE [m EXCEPT !.pc = "audio", !.ki = @ + 1]

\* Step 4: the call of audio_generator.generate for one summary.  An empty
\* text is refused by generate; otherwise it succeeds, fails, or raises
\* out of generate_podcasts when the output directory cannot be made.
MgrAudio ==
    /\ mgr.pc = "audio"
    /\ LET entry == mgr.summaries[mgr.ki]
           j == DictGet(mgr.results, entry.keyword)
       IN  \E out \in (IF entry.value = "" THEN {"failed"} ELSE {"ok", "failed", "raised"}) :
              LET logged == Append(mgr.log, MgrEv("generate", entry.keyword, out))
              IN  CASE out = "ok" ->
                         mgr' = [mgr EXCEPT !.log = logged, !.pc = "upload",
                                    !.results[j].value.audio_local_path = "file",
                                    !.results[j].value.steps_completed =
                                        Append(@, "generate_audio")]
                    [] out = "failed" ->
                         mgr' = AfterKeyword([mgr EXCEPT !.log = logged,
                                    !.results[j].value.error = "audio failed"])
                    [] OTHER ->
                         mgr' = [mgr EXCEPT !.log = logged, !.pc = "done",
                                            !.returned = "raised"]
    /\ UNCHANGED <<senders, mail, call>>

\* What generate_podcasts does with the value of _upload_to_storage.
Uploaded(m, remote_url) ==
    LET j == DictGet(m.results, m.summaries[m.ki].keyword)
        marked == IF remote_url # ""
                  THEN [m EXCEPT !.results[j].value.audio_url = remote_url,
                                 !.results[j].value.steps_completed = Append(@, "upload")]
                  ELSE m
    IN  AfterKeyword([marked EXCEPT !.results[j].value.success = SuccessOf(remote_url)])

\* _upload_to_storage: the S3 upload when a storage manager with
\* upload_file is configured, else straight to Litterbox.
MgrUpload ==
    /\ mgr.pc = "upload"
    /\ \E storage \in {"none", "no_upload_file", "s3"} :
          LET keyword == mgr.summaries[mgr.ki].keyword
              called == Append(mgr.log, MgrEv("upload_to_storage", keyword, storage))
          IN  IF storage = "s3"
              THEN \E s3 \in {"url", "empty", "raise"} :
                      LET logged == Append(called, MgrEv("s3", keyword, s3))
                      IN  IF NeedsFallback(s3)
                          THEN mgr' = [mgr EXCEPT !.log = logged, !.pc = "litterbox"]
                          ELSE mgr' = Uploaded([mgr EXCEPT !.log = logged], "s3_url")
              ELSE mgr' = [mgr EXCEPT !.log = called, !.pc = "litterbox"]
    /\ UNCHANGED <<senders, mail, call>>

\* _upload_to_litterbox: the URL of the file, or "" on any failure.
MgrLitterbox ==
    /\ mgr.pc = "litterbox"
    /\ \E out \in {"url", "failed"} :
          LET keyword == mgr.summaries[mgr.ki].keyword
              logged == Append(mgr.log, MgrEv("litterbox", keyword, out))
          IN  mgr' = Uploaded([mgr EXCEPT !.log = logged],
                              IF out = "url" THEN "litterbox_url" ELSE "")
    /\ UNCHANGED <<senders, mail, call>>

NextManager ==
    MgrStart \/ MgrFetch \/ MgrSummarize \/ MgrAudio \/ MgrUpload \/ MgrLitterbox

SpecManager == InitManager /\ [][NextManager]_vars

(***************************************************************************)
(* What the log and the results of a call of generate_podcasts say.        *)
(***************************************************************************)
\* Positions of the calls of one collaborator.
MgrCalls(ev) == { p \in 1..Len(mgr.log) : mgr.log[p].ev = ev }

\* Positions of the calls of one collaborator for one keyword.
MgrCallsFor(ev, keyword) == { p \in MgrCalls(ev) : mgr.log[p].keyword = keyword }

\* The results as a set.
ResultSet == { mgr.results[j].value : j \in 1..Len(mgr.results) }

Stages == <<"fetch_content", "summarize", "generate_audio", "upload">>

\* The elements of a list.
Range(seq) == { seq[j] : j \in 1..Len(seq) }

\* C35: stage order.  The steps of every result are a prefix of
\* fetch_content, summarize, generate_audio, upload; the audio generator is
\* called only for a keyword whose summary succeeded, the upload only for a
\* keyword whose audio was generated, and a keyword for which no article
\* was fetched has no result.
C35_StageOrder ==
    /\ \A res \in ResultSet :
          /\ Len(res.steps_completed) <= Len(Stages)
          /\ res.steps_completed = SubSeq(Stages, 1, Len(res.steps_completed))
          /\ \E p \in MgrCallsFor("fetch_content", res.keyword) : mgr.log[p].out = "ok"
    /\ \A p \in MgrCalls("generate") :
          \E q \in MgrCallsFor("summarize", mgr.log[p].keyword) :
             q < p /\ mgr.log[q].out # "failed"
    /\ \A p \in MgrCalls("upload_to_storage") \cup MgrCalls("s3") \cup MgrCalls("litterbox") :
          \E q \in MgrCallsFor("generate", mgr.log[p].keyword) :
             q < p /\ mgr.log[q].out = "ok"
    /\ \A res \in ResultSet :
          /\ "generate_audio" \in Range(res.steps_completed)
                => \E q \in MgrCallsFor("generate", res.keyword) : mgr.log[q].out = "ok"
          /\ "upload" \in Range(res.steps_completed)
                => MgrCallsFor("upload_to_storage", res.keyword) # {}

\* A returned mapping with a result that went through all four stages and
\* a keyword that was fetched for in vain.
C35_Witness ==
    /\ mgr.pc = "done" /\ mgr.returned = "results"
    /\ \E res \in ResultSet : res.steps_completed = Stages
    /\ \E j \in 1..Len(mgr.keyword_articles) :
          LET k == mgr.keyword_articles[j].keyword
          IN  /\ MgrCallsFor("fetch_content", k) # {}
              /\ \A p \in MgrCallsFor("fetch_content", k) : mgr.log[p].out = "failed"
              /\ \A res \in ResultSet : res.keyword # k

\* C36: result consistency.  In the mapping generate_podcasts returns,
\* success is TRUE iff the audio was generated, whatever the upload did; a
\* success has an empty error and a failure a non-empty one; audio_url is
\* non-empty only with the upload step; get_audio_urls gives exactly the
\* successes with an audio_url, which are the keywords whose file S3 or
\* Litterbox took.
C36_ResultConsistency ==
    (mgr.pc = "done" /\ mgr.returned = "results") =>
        /\ \A res \in ResultSet :
              /\ res.success <=>
                    \E p \in MgrCallsFor("generate", res.keyword) : mgr.log[p].out = "ok"
              /\ res.success => res.error = ""
              /\ ~res.success => res.error # ""
              /\ res.audio_url # "" => "upload" \in Range(res.steps_completed)
        /\ { u.keyword : u \in get_audio_urls(mgr.results) }
              = { res.keyword : res \in { x \in ResultSet : x.success /\ x.audio_url # "" } }
        /\ { u.keyword : u \in get_audio_urls(mgr.results) }
              = { mgr.log[p].keyword :
                    p \in { q \in MgrCalls("s3") \cup MgrCalls("litterbox") :
                              mgr.log[q].out = "url" } }

\* A returned mapping with a success that was not uploaded, an uploaded
\* one, and a failure.
C36_Witness ==
    /\ mgr.pc = "done" /\ mgr.returned = "results"
    /\ \E res \in ResultSet : res.success /\ res.audio_url = ""
    /\ \/ \E res \in ResultSet : res.success /\ res.audio_url # ""
       \/ \E res \in ResultSet : ~res.success

\* No stat has a keyword and an article with both title and URL.
NothingToFetch ==
    \A j \in 1..Len(mgr.stats) :
       \/ mgr.stats[j].word = ""
       \/ \A t \in 1..Len(mgr.stats[j].titles) : mgr.stats[j].titles[t] # "ok"

\* C37: early exits and limits.  Disabled, or with nothing to fetch, the
\* call returns the empty mapping and calls no collaborator; when every
\* fetch failed it returns the empty mapping without a call of the
\* summarizer, the audio generator or the storage; at most MAX_KEYWORDS
\* keywords are fetched for, with at most MAX_ARTICLES_PER_KEYWORD fetches
\* each.
C37_EarlyExits ==
    mgr.pc # "none" =>
        /\ (~mgr.enabled \/ NothingToFetch) =>
              /\ mgr.log = <<>>
              /\ mgr.pc = "done" => mgr.results = <<>> /\ mgr.returned = "results"
        /\ (\A p \in MgrCalls("fetch_content") : mgr.log[p].out = "failed") =>
              /\ MgrCalls("fetch_content") = 1..Len(mgr.log)
              /\ mgr.results = <<>>
              /\ mgr.pc \in {"start", "fetch", "done"}
              /\ mgr.pc = "done" => mgr.returned = "results"
        /\ Cardinality({ mgr.log[p].keyword : p \in MgrCalls("fetch_content") })
              <= mgr.max_keywords
        /\ \A p \in MgrCalls("fetch_content") :
              Cardinality(MgrCallsFor("fetch_content", mgr.log[p].keyword))
                 <= mgr.max_articles_per_keyword

\* Every fetch failed, with more stats than MAX_KEYWORDS and more articles
\* than MAX_ARTICLES_PER_KEYWORD on offer.
C37_Witness ==
    /\ mgr.pc = "done" /\ mgr.enabled
    /\ mgr.log # <<>>
    /\ \A p \in 1..Len(mgr.log) : mgr.log[p].ev = "fetch_content" /\ mgr.log[p].out = "failed"
    /\ Len(mgr.stats) > mgr.max_keywords
    /\ \A j \in 1..Len(mgr.stats) :
          mgr.stats[j].word # "" /\ Len(mgr.stats[j].titles) > mgr.max_articles_per_keyword
    /\ Len(mgr.log) = mgr.max_keywords * mgr.max_articles_per_keyword

\* C38: upload fallback order.  A call of _upload_to_storage makes the S3
\* upload first, exactly when a storage manager with upload_file is
\* configured, and its URL is the result when it is non-empty; Litterbox is
\* called at most once, and only without such a storage manager or after an
\* S3 upload that raised or returned no URL; when both fail the result is
\* the empty string, and no upload makes generate_podcasts raise.
C38_UploadFallback ==
    /\ \A p \in MgrCalls("upload_to_storage") :
          LET k == mgr.log[p].keyword
              storage == mgr.log[p].out
              s3 == MgrCallsFor("s3", k)
              lb == MgrCallsFor("litterbox", k)
              pending == mgr.pc = "litterbox" /\ mgr.summaries[mgr.ki].keyword = k
              res == mgr.results[DictGet(mgr.results, k)].value
          IN  /\ Cardinality(MgrCallsFor("upload_to_storage", k)) = 1
              /\ s3 = (IF storage = "s3" THEN {p + 1} ELSE {})
              /\ Cardinality(lb) <= 1
              /\ \A q \in lb :
                    /\ q = p + 1 + Cardinality(s3)
                    /\ storage # "s3" \/ mgr.log[p + 1].out \in {"raise", "empty"}
              /\ ~pending =>
                    res.audio_url =
                       IF \E q \in s3 : mgr.log[q].out = "url" THEN "s3_url"
                       ELSE IF \E q \in lb : mgr.log[q].out = "url" THEN "litterbox_url"
                       ELSE ""
              /\ (~pending /\ ~(\E q \in s3 : mgr.log[q].out = "url")) => lb # {}
    /\ mgr.returned = "raised" => mgr.log[Len(mgr.log)].ev = "generate"

\* An S3 upload that raised, followed by a Litterbox upload that failed,
\* in a call that went on and returned.
C38_Witness ==
    /\ mgr.pc = "done" /\ mgr.returned = "results"
    /\ \E p \in MgrCalls("s3") :
          /\ mgr.log[p].out = "raise"
          /\ p + 1 \in MgrCalls("litterbox")
          /\ mgr.log[p + 1].out = "failed"
    /\ \E p \in MgrCalls("s3") : mgr.log[p].out = "url"

====
